---- MODULE Spec2Model ----
(***************************************************************************)
(* The listener pipeline of vicanso/dusk: registration of request,         *)
(* response, error and done listeners at global, instance and call scope,  *)
(* and the life of one Dusk.Do() call, one listener invocation per step.   *)
(* Revision modelled: the AddRequestListener(ln, eventType) revision with  *)
(* Instance (src/unnamed/part_005 from line 373, src/instance.go).         *)
(***************************************************************************)
EXTENDS Integers, Sequences, FiniteSets, TLC

\* ------------------------------------------------------------------ bounds

\* Calls that configure a request before Do(): listener registrations (all
\* scopes, all kinds together), Timeout() with a non-zero value, EnableTrace().
MaxListeners == 3

\* ------------------------------------------------------- program constants

EventTypeNone == 0
EventTypeBefore == 1
EventTypeAfter == 2

\* ------------------------------------------------------------------ values

\* The error values that can flow through Do(): nil, the two build errors of
\* newRequest, the transport error, the body read error, and one error per
\* listener (the listener is named by event, phase, scope and position).
NoErr == [src |-> "nil", t |-> EventTypeNone, scope |-> "none", n |-> 0]
EngineErr(what) == [src |-> what, t |-> EventTypeNone, scope |-> "engine", n |-> 0]
ListenerErr(ev, e) == [src |-> ev, t |-> e.t, scope |-> e.scope, n |-> e.n]

\* The error a request or response listener stores in d.Err (`d.Err = ...`)
\* while it returns nil.
WrittenErr(e) == [src |-> "written", t |-> e.t, scope |-> e.scope, n |-> e.n]

\* time.Duration values given to Timeout(): zero (no timeout) or non-zero.
TimeoutValues == {0, 1}

\* *http.Request: nil, the request newRequest renders, or the replacement a
\* listener assigns; ctx is the chain of contexts the request carries.
NoRequest == [id |-> "nil", ctx |-> <<>>]
ListenerRequest == [id |-> "replacement", ctx |-> <<>>]

\* []byte bodies: nil, the bytes read from resp.Body, or the bytes a listener
\* stored in d.Body (named by the listener).
NoBody == [src |-> "nil", scope |-> "none", n |-> 0]
WireBody == [src |-> "wire", scope |-> "engine", n |-> 0]
ListenerBody(e) == [src |-> "listener", scope |-> e.scope, n |-> e.n]

\* Mutant of Failed: an error check that never sees an error.
Failed_never(e) == FALSE

\* Go's `err != nil`.
Failed(e) == e # NoErr

\* Mutant of Replaced: the listeners' result is assigned even when it is nil.
Replaced_always(cur, new) == new

\* Mutant of Replaced: an error already present is never replaced.
Replaced_keepFirst(cur, new) == IF cur # NoErr THEN cur ELSE new

\* Go's `if newErr != nil { err = newErr }`: the value err holds afterwards.
Replaced(cur, new) == IF Failed(new) THEN new ELSE cur

\* What a listener function may do when it is called: return nil, return
\* an error, or return nil after assigning a field of the *Dusk it is given.
RequestOutcomes == {"nil", "err", "setRequest", "setErr"}
ResponseOutcomes == {"nil", "err", "setBody", "setErr"}
ErrorOutcomes == {"nil", "err"}
DoneOutcomes == {"nil", "err"}

\* ------------------------------------------------------------------- state

VARIABLES
    globalRequestEvents,   \* package list of request listeners
    globalResponseEvents,  \* package list of response listeners
    globalErrorListeners,  \* package list of error listeners
    doneListeners,         \* package list of done listeners
    ins,                   \* the Instance: its four listener lists
    d,                     \* the Dusk object: its fields
    pc,                    \* where the caller / Do() stands
    req,                   \* do(): local req
    resp,                  \* do(): local resp
    err,                   \* Do(), do(): named result err
    ret,                   \* value the running Emit* call is about to return
    i,                     \* loop index of the running Emit* call
    result,                \* what Do() handed back: resp, body, err
    sent,                  \* requests handed to the transport (c.Do)
    log,                   \* observable steps of the Do() call, in order
    dDec,                  \* decoding: the Dusk that Snappy() / Br() configure
    reply,                 \* decoding: the reply the server put on the wire
    respDec,               \* decoding: the *http.Response c.Do returned
    pcDec,                 \* decoding: where that Dusk's Do() stands
    iDec,                  \* decoding: loop index of EmitResponse
    errDec,                \* decoding: error the response listeners returned
    resultDec,             \* decoding: what Do() handed back
    gor,                   \* registry race: each goroutine's call in progress
    ht,                    \* tracing: the HTTPTrace, its time stamps
    mu,                    \* tracing: the RWMutex embedded in the HTTPTrace
    now,                   \* tracing: the clock time.Now() reads
    th,                    \* tracing: each goroutine's call in progress
    dReq,                  \* rendering: the request descriptor of a Dusk
    pcReq,                 \* rendering: whether that Dusk has been created
    renders,               \* rendering: results since the last builder call
    builderCalls,          \* rendering: builder calls made on that Dusk
    dEmit,                 \* On/Emit revision: the Dusk, its fields
    pcEmit,                \* On/Emit revision: where its caller / Do() stands
    iEmit,                 \* On/Emit revision: loop index of the running Emit
    resultEmit,            \* On/Emit revision: what Do() handed back
    logEmit,               \* On/Emit revision: observable steps, in order
    dOn,                   \* OnDone revision: the Dusk, its fields
    pcOn,                  \* OnDone revision: where its caller / Do() stands
    iOn,                   \* OnDone revision: loop index of the running Emit*
    errOn,                 \* OnDone revision: the named result err of Do()
    retOn,                 \* OnDone revision: what the last listener returned
    logOn,                 \* OnDone revision: listener calls, in order
    heap,                  \* scopes: the backing arrays of the listener slices
    pkgLists,              \* scopes: the package's listener slices, by kind
    insLists,              \* scopes: the Instance's listener slices, by kind
    dusks,                 \* scopes: the Dusk objects created so far
    regs,                  \* scopes: listeners registered so far
    fired                  \* scopes: listener calls of every Do(), in order

\* The state of the response decoding scenario.
decodeVars == <<dDec, reply, respDec, pcDec, iDec, errDec, resultDec>>

\* The state of the scenario of goroutines racing on the package lists
\* (with the four package lists).
raceVars == <<gor>>

\* The state of the tracing scenario.
traceVars == <<ht, mu, now, th>>

\* The state of the request rendering scenario.
renderVars == <<dReq, pcReq, renders, builderCalls>>

\* The state of the scenario of the On/Emit revision.
emitVars == <<dEmit, pcEmit, iEmit, resultEmit, logEmit>>

\* The state of the scenario of the OnDone revision.
onDoneVars == <<dOn, pcOn, iOn, errOn, retOn, logOn>>

\* The state of the scenario of several Dusk objects and their scopes.
scopeVars == <<heap, pkgLists, insLists, dusks, regs, fired>>

\* The state the listener pipeline does not touch.
outside == <<decodeVars, raceVars, traceVars, renderVars, emitVars, onDoneVars,
             scopeVars>>

vars == <<globalRequestEvents, globalResponseEvents, globalErrorListeners,
          doneListeners, ins, d, pc, req, resp, err, ret, i, result, sent, log,
          outside>>

\* The state of the listener pipeline.
pipelineVars == <<globalRequestEvents, globalResponseEvents,
                  globalErrorListeners, doneListeners, ins, d, pc, req, resp,
                  err, ret, i, result, sent, log>>

\* What the decoding, the registry race, the tracing, the rendering and the
\* On/Emit scenario leave alone.
decodeFrame == <<pipelineVars, raceVars, traceVars, renderVars, emitVars, onDoneVars,
    scopeVars>>
raceFrame == <<ins, d, pc, req, resp, err, ret, i, result, sent, log,
               decodeVars, traceVars, renderVars, emitVars, onDoneVars,
               scopeVars>>
traceFrame == <<pipelineVars, decodeVars, raceVars, renderVars, emitVars, onDoneVars,
    scopeVars>>
renderFrame == <<pipelineVars, decodeVars, raceVars, traceVars, emitVars, onDoneVars,
    scopeVars>>
emitFrame == <<pipelineVars, decodeVars, raceVars, traceVars, renderVars, onDoneVars,
    scopeVars>>
onDoneFrame == <<pipelineVars, decodeVars, raceVars, traceVars, renderVars, emitVars,
    scopeVars>>
scopeFrame == <<pipelineVars, decodeVars, raceVars, traceVars, renderVars, emitVars,
    onDoneVars>>

globals == <<globalRequestEvents, globalResponseEvents, globalErrorListeners,
             doneListeners>>

locals == <<req, resp, err, ret, i, result, sent, log>>

\* A listener entry: RequestEvent / ResponseEvent {ln, t}; error and done
\* listeners carry EventTypeNone. scope and n name the function ln.
Entry(scope, n, t) == [scope |-> scope, n |-> n, t |-> t]

\* The done listener newRequest registers for a timeout: it calls cancel().
CancelEntry == Entry("cancel", 1, EventTypeNone)

CountScope(list, scope) == Cardinality({k \in 1..Len(list) : list[k].scope = scope})

\* Registrations and option calls made so far, for the bound.
Registered ==
    (IF d.timeout # 0 THEN 1 ELSE 0) + (IF d.enabledTrace THEN 1 ELSE 0)
    + Len(globalRequestEvents) + Len(globalResponseEvents)
    + Len(globalErrorListeners) + Len(doneListeners)
    + Len(ins.requestEvents) + Len(ins.responseEvent)
    + Len(ins.errorListeners) + Len(ins.doneListeners)
    + CountScope(d.requestEvents, "call") + CountScope(d.responseEvents, "call")
    + CountScope(d.errorListeners, "call") + CountScope(d.doneListeners, "call")

Event(ev, e, out) == [ev |-> ev, t |-> e.t, scope |-> e.scope, n |-> e.n, out |-> out]
EngineEvent(ev, out) == [ev |-> ev, t |-> EventTypeNone, scope |-> "engine", n |-> 0, out |-> out]

\* The call ln(currentErr, d) of error listener e and what it returned.
ErrorEvent(e, out, currentErr) ==
    [ev |-> "error", t |-> e.t, scope |-> e.scope, n |-> e.n, out |-> out,
     seen |-> currentErr]

\* *HTTPTrace of a Dusk: nil, or the trace NewClientTrace() made, with
\* whether its Done time stamp has been set.
NoHTTPTrace == [ptr |-> "nil", Done |-> FALSE]
NewClientTrace == [ptr |-> "ht", Done |-> FALSE]

\* The zero Dusk value.
ZeroDusk ==
    [Request |-> NoRequest, Response |-> "nil", Body |-> NoBody, Err |-> NoErr,
     ctx |-> <<>>, doneListeners |-> <<>>, requestEvents |-> <<>>,
     responseEvents |-> <<>>, errorListeners |-> <<>>,
     timeout |-> 0, ht |-> NoHTTPTrace, enabledTrace |-> FALSE]

\* --------------------------------------------- response decoding: values

\* Snappy() / Br() calls explored on one Dusk.
MaxDecoders == 2

GzipEncoding == "gzip"
SnappyEncoding == "snappy"
BrEncoding == "br"

\* Plain texts a server compresses (the two of the tests).
Texts == {"abcd", "tree.xie"}

\* The bytes of a response body: a text in a format. Format "plain" is the
\* text itself; the other two are its snappy and its brotli compression.
Bytes(format, text) == [format |-> format, text |-> text]
NoBytes == [format |-> "nil", text |-> ""]
Payloads == {Bytes(f, t) : f \in {"plain", SnappyEncoding, BrEncoding}, t \in Texts}

\* Replies of the server: the Content-Encoding value ("" for no header),
\* whether a Content-Length header is present, and the body bytes.
Replies ==
    [contentEncoding : {"", GzipEncoding, SnappyEncoding, BrEncoding},
     contentLength : BOOLEAN,
     payload : Payloads]

\* *http.Response: nil, or the headers, the Uncompressed flag and the body
\* stream (its bytes and whether it has been read to the end and closed).
NoResponse ==
    [status |-> "nil", contentEncoding |-> "", contentLength |-> FALSE,
     Uncompressed |-> FALSE, payload |-> NoBytes, closed |-> FALSE]
Received(r) ==
    [status |-> "received", contentEncoding |-> r.contentEncoding,
     contentLength |-> r.contentLength, Uncompressed |-> FALSE,
     payload |-> r.payload, closed |-> FALSE]

\* The zero Dusk of the decoding scenario: the fields Snappy(), Br() and the
\* response half of do() use.
ZeroDecodeDusk ==
    [disableCompression |-> FALSE, acceptEncoding |-> <<>>,
     responseEvents |-> <<>>, hasResponse |-> FALSE, Body |-> NoBytes]

InitDecode ==
    /\ dDec = ZeroDecodeDusk
    /\ reply = [contentEncoding |-> "", contentLength |-> FALSE, payload |-> NoBytes]
    /\ respDec = NoResponse
    /\ pcDec = "none"
    /\ iDec = 0
    /\ errDec = ""
    /\ resultDec = [resp |-> NoResponse, body |-> NoBytes, err |-> ""]

\* ------------------------------------------------- registry race: values

\* Goroutines that call the package functions at the same time.
MaxGoroutines == 2

Goroutines == 1..MaxGoroutines

\* The calls a goroutine makes, and the package list each is about.
RegistryOps == {"AddRequestListener", "AddResponseListener", "AddErrorListener",
                "AddDoneListener", "newDusk"}
ListOf(op) ==
    CASE op = "AddRequestListener" -> "globalRequestEvents"
      [] op = "AddResponseListener" -> "globalResponseEvents"
      [] op = "AddErrorListener" -> "globalErrorListeners"
      [] op = "AddDoneListener" -> "doneListeners"
      [] OTHER -> "globalRequestEvents"

\* The order in which newDusk goes through the package lists.
ListAfter(list) ==
    CASE list = "globalRequestEvents" -> "globalResponseEvents"
      [] list = "globalResponseEvents" -> "globalErrorListeners"
      [] list = "globalErrorListeners" -> "doneListeners"
      [] OTHER -> "none"

\* A goroutine that has made no call yet.
IdleGoroutine ==
    [pc |-> "idle", op |-> "none", t |-> EventTypeNone, list |-> "none",
     old |-> <<>>,
     dusk |-> [globalRequestEvents |-> <<>>, globalResponseEvents |-> <<>>,
               globalErrorListeners |-> <<>>, doneListeners |-> <<>>]]

InitRace == gor = [g \in Goroutines |-> IdleGoroutine]

\* ------------------------------------------------------- tracing: values

\* Goroutines that call Finish() and Stats() on one HTTPTrace.
MaxCallers == 2

\* Finish() and Stats() calls made on it, all callers together.
MaxCalls == 2

\* The last instant of the clock (the first is 1; 0 is the zero time.Time).
MaxTime == 2

\* The goroutine of the transport, which runs the trace callbacks.
Transport == 0

Callers == 1..MaxCallers
Threads == {Transport} \cup Callers
NoThread == -1

\* The callbacks of the ClientTrace, in the order in which the transport
\* runs those that apply to a request.
Callbacks == <<"DNSStart", "DNSDone", "ConnectStart", "ConnectDone",
               "TLSHandshakeStart", "TLSHandshakeDone", "GotConn",
               "GotFirstResponseByte">>

\* The time stamp each callback sets.
FieldOf(callback) == IF callback = "GotConn" THEN "GotConnect" ELSE callback

TimeFields == {"Start", "DNSStart", "DNSDone", "ConnectStart", "ConnectDone",
               "GotConnect", "GotFirstResponseByte", "TLSHandshakeStart",
               "TLSHandshakeDone", "Done"}

\* &HTTPTimelineStats{}
ZeroStats ==
    [DNSLookup |-> 0, TCPConnection |-> 0, TLSHandshake |-> 0,
     ServerProcessing |-> 0, ContentTransfer |-> 0, Total |-> 0]

\* A goroutine outside every call: k is the next callback of the transport,
\* calls the Finish() and Stats() calls a caller has begun, stats the value
\* its Stats() call is filling or has returned.
IdleThread ==
    [pc |-> "idle", k |-> 1, calls |-> 0, stats |-> ZeroStats, returned |-> FALSE]

\* After NewClientTrace(): Start is stamped, nothing else is.
InitTrace ==
    /\ now = 1
    /\ ht = [f \in TimeFields |-> IF f = "Start" THEN 1 ELSE 0]
    /\ mu = [writer |-> NoThread, readers |-> {}]
    /\ th = [g \in Threads |-> IdleThread]

\* ----------------------------------------------------- rendering: values

\* Builder calls (Param, Query, Set, Type, Send) explored on one Dusk.
MaxBuilderCalls == 3

\* GetURL() / newRequest() calls explored after the last builder call.
MaxRenders == 2

\* A Go string is the sequence of its characters.
\* URL templates given to Post(): "/:id/:idx", "/:idx?v", "/:no".
URLTemplates ==
    {<<"/", ":", "i", "d", "/", ":", "i", "d", "x">>,
     <<"/", ":", "i", "d", "x", "?", "v">>,
     <<"/", ":", "n", "o">>}

\* Names and values given to Param(): "id", "idx"; "1", "2".
ParamKeys == {<<"i", "d">>, <<"i", "d", "x">>}
ParamValues == {<<"1">>, <<"2">>}

\* Names and values given to Query(): "a", "b"; "1", " ".
QueryKeys == <<"a", "b">>
QueryValues == {<<"1">>, <<" ">>}

\* Header names and values given to Set(), content types given to Type().
HeaderContentType == "Content-Type"
MIMEApplicationJSON == "application/json"
MIMEApplicationFormUrlencoded == "application/x-www-form-urlencoded"
jsonType == "json"
formType == "form"
HeaderKeys == {HeaderContentType, "a"}
HeaderValues == {"1"}
ContentTypes == {jsonType, formType, "text/plain"}

\* The payloads given to Send(): an io.Reader, url.Values, a map (which
\* json.Marshal encodes) and a func (which json.Marshal rejects).
SendData == {"io.Reader", "url.Values", "map", "func"}

\* A nil map (params, query, header): no key.
NilMap == [k \in {} |-> <<>>]

\* The descriptor fields of the zero Dusk.
ZeroRequestDusk ==
    [url |-> <<>>, params |-> NilMap, query |-> NilMap, header |-> NilMap,
     data |-> "nil"]

InitRender ==
    /\ dReq = ZeroRequestDusk
    /\ pcReq = "none"
    /\ renders = <<>>
    /\ builderCalls = 0

\* ----------------------------------------------------- scopes: values

\* Scopes scenario: Dusk objects created, calls before the Do() calls (Get,
\* registrations at any scope, Clear*, Timeout) and Do() calls over all
\* objects.
MaxObjects == 2
MaxScopeCalls == 4
MaxDos == 2

\* The listener lists of the package, of an Instance and of a Dusk, in the
\* order newDusk and Instance.init copy them. The request list stands for
\* the response and error lists too, which the code handles line for line
\* like it; the done list is the one newRequest adds the cancel closure to.
KindOrder == <<"request", "done">>
ListKinds == {KindOrder[j] : j \in 1..Len(KindOrder)}

\* A Go slice: its backing array in the heap (0: none, a nil slice or one
\* of capacity 0) and its length.
NilSlice == [arr |-> 0, len |-> 0]

\* The listener the n-th registration call added, at which scope and, for
\* the call scope, on which Dusk; and the closure the k-th Do() of a Dusk
\* registers to call cancel().
Listener(scope, owner, kind, n) == [scope |-> scope, owner |-> owner, kind |-> kind, n |-> n]
CancelListener(o, k) == Listener("cancel", o, "done", k)

NoDusk == [created |-> FALSE, lists |-> [k \in ListKinds |-> NilSlice],
           timeout |-> 0, ctx |-> <<>>, dos |-> 0, Err |-> "nil"]

InitScopes ==
    /\ heap = <<>>
    /\ pkgLists = [k \in ListKinds |-> NilSlice]
    /\ insLists = [k \in ListKinds |-> NilSlice]
    /\ dusks = [o \in 1..MaxObjects |-> NoDusk]
    /\ regs = 0
    /\ fired = <<>>

\* --------------------------------------------- OnDone revision: values

\* Entries of d.doneEvents and d.errorEvents: the n-th listener the caller
\* registered, or the closure newReqest registers that calls cancel().
OnListener(kind, n) == [kind |-> kind, n |-> n]
OnCancel == OnListener("cancel", 0)

\* Errors of the OnDone revision: nil, an error of newReqest or do(), the
\* error a listener returned.
OnNoErr == [src |-> "nil", n |-> 0]
OnEngineErr(what) == [src |-> what, n |-> 0]
OnListenerErr(e) == [src |-> e.kind, n |-> e.n]

\* What newReqest and do() may answer.
OnRenderOutcomes == {"ok", "newRequest"}
OnDoOutcomes == {"ok", "fail"}

\* newDusk: no listener, no timeout, no context.
InitOnDone ==
    /\ dOn = [timeout |-> 0, ctx |-> <<>>, doneEvents |-> <<>>,
              errorEvents |-> <<>>, Err |-> OnNoErr]
    /\ pcOn = "none"
    /\ iOn = 0
    /\ errOn = OnNoErr
    /\ retOn = OnNoErr
    /\ logOn = <<>>

\* -------------------------------------------- On/Emit revision: values

\* On() calls explored on one Dusk of the On/Emit revision.
MaxEvents == 3

\* Configuring calls (OnDone, OnError, Timeout) on the Dusk of the OnDone
\* revision before its Do().
MaxOnCalls == 3

EventRequest == "request"
EventResponse == "response"
EventError == "error"
EventDone == "done"

\* An entry of d.events: Event{Name, Listener}; n names the function among
\* those registered for that name.
EmitEvent(name, n) == [Name |-> name, n |-> n]

\* The done listener NewRequest registers for a timeout: it calls cancel().
CancelEvent == EmitEvent(EventDone, 0)

\* Error values of d.Error: nil, the error of a failed step of do(), the
\* error a listener stored, and what ConvertError made of any of them.
NoError == [src |-> "nil", n |-> 0, converted |-> FALSE]
DoError(step) == [src |-> step, n |-> 0, converted |-> FALSE]
StoredError(e) == [src |-> e.Name, n |-> e.n, converted |-> FALSE]
ConvertedError(e) == [e EXCEPT !.converted = TRUE]

\* What a Listener func(*Dusk) does with the Dusk it is given: nothing, or
\* `d.Error = ...`. What d.ConvertError returns: an error, or nil.
ListenerOutcomes == {"nil", "setError"}
ConvertOutcomes == {"converted", "nil"}

\* New(): &Dusk{}
ZeroEmitDusk ==
    [Timeout |-> 0, Error |-> NoError, ConvertError |-> FALSE,
     Response |-> "nil", Body |-> "nil", events |-> <<>>]

InitEmit ==
    /\ dEmit = ZeroEmitDusk
    /\ pcEmit = "new"
    /\ iEmit = 0
    /\ resultEmit = [resp |-> "nil", body |-> "nil", err |-> NoError]
    /\ logEmit = <<>>

Init ==
    /\ InitDecode
    /\ InitRace
    /\ InitTrace
    /\ InitRender
    /\ InitEmit
    /\ InitOnDone
    /\ InitScopes
    /\ globalRequestEvents = <<>>
    /\ globalResponseEvents = <<>>
    /\ globalErrorListeners = <<>>
    /\ doneListeners = <<>>
    /\ ins = [requestEvents |-> <<>>, responseEvent |-> <<>>,
              errorListeners |-> <<>>, doneListeners |-> <<>>]
    /\ d = ZeroDusk
    /\ pc = "none"
    /\ req = NoRequest
    /\ resp = "nil"
    /\ err = NoErr
    /\ ret = NoErr
    /\ i = 0
    /\ result = [resp |-> "nil", body |-> NoBody, err |-> NoErr]
    /\ sent = <<>>
    /\ log = <<>>

\* ------------------------------------------------------------ registration

\* Package and instance listeners are registered before the Dusk is created
\* (a later registration reaches no list of an existing Dusk: newDusk and
\* init copy the entries when they run).
CallerFree == pc = "none"

\* func AddRequestListener(ln, eventType)
AddRequestListener(eventType) ==
    /\ CallerFree
    /\ Registered < MaxListeners
    /\ globalRequestEvents' =
         Append(globalRequestEvents,
                Entry("global", Len(globalRequestEvents) + 1, eventType))
    /\ UNCHANGED <<globalResponseEvents, globalErrorListeners, doneListeners,
                   ins, d, pc, locals, outside>>

\* func AddResponseListener(ln, eventType)
AddResponseListener(eventType) ==
    /\ CallerFree
    /\ Registered < MaxListeners
    /\ globalResponseEvents' =
         Append(globalResponseEvents,
                Entry("global", Len(globalResponseEvents) + 1, eventType))
    /\ UNCHANGED <<globalRequestEvents, globalErrorListeners, doneListeners,
                   ins, d, pc, locals, outside>>

\* func AddErrorListener(ln)
AddErrorListener ==
    /\ CallerFree
    /\ Registered < MaxListeners
    /\ globalErrorListeners' =
         Append(globalErrorListeners,
                Entry("global", Len(globalErrorListeners) + 1, EventTypeNone))
    /\ UNCHANGED <<globalRequestEvents, globalResponseEvents, doneListeners,
                   ins, d, pc, locals, outside>>

\* func AddDoneListener(lnList ...)
AddDoneListener ==
    /\ CallerFree
    /\ Registered < MaxListeners
    /\ doneListeners' =
         Append(doneListeners,
                Entry("global", Len(doneListeners) + 1, EventTypeNone))
    /\ UNCHANGED <<globalRequestEvents, globalResponseEvents,
                   globalErrorListeners, ins, d, pc, locals, outside>>

\* func (ins *Instance) AddRequestListener(ln, eventType)
Instance_AddRequestListener(eventType) ==
    /\ CallerFree
    /\ Registered < MaxListeners
    /\ ins' = [ins EXCEPT !.requestEvents =
                 Append(@, Entry("instance", Len(@) + 1, eventType))]
    /\ UNCHANGED <<globals, d, pc, locals, outside>>

\* func (ins *Instance) AddResponseListener(ln, eventType)
Instance_AddResponseListener(eventType) ==
    /\ CallerFree
    /\ Registered < MaxListeners
    /\ ins' = [ins EXCEPT !.responseEvent =
                 Append(@, Entry("instance", Len(@) + 1, eventType))]
    /\ UNCHANGED <<globals, d, pc, locals, outside>>

\* func (ins *Instance) AddErrorListener(ln)
Instance_AddErrorListener ==
    /\ CallerFree
    /\ Registered < MaxListeners
    /\ ins' = [ins EXCEPT !.errorListeners =
                 Append(@, Entry("instance", Len(@) + 1, EventTypeNone))]
    /\ UNCHANGED <<globals, d, pc, locals, outside>>

\* func (ins *Instance) AddDoneListener(ln)
Instance_AddDoneListener ==
    /\ CallerFree
    /\ Registered < MaxListeners
    /\ ins' = [ins EXCEPT !.doneListeners =
                 Append(@, Entry("instance", Len(@) + 1, EventTypeNone))]
    /\ UNCHANGED <<globals, d, pc, locals, outside>>

\* Mutant of newDusk: the package error listeners are not copied.
newDusk_noErrorListeners ==
    [ZeroDusk EXCEPT !.requestEvents = globalRequestEvents,
                     !.responseEvents = globalResponseEvents,
                     !.doneListeners = doneListeners]

\* func newDusk(method, requestURL): a Dusk holding a copy of the four
\* package lists (no default config set).
newDusk ==
    [ZeroDusk EXCEPT !.requestEvents = globalRequestEvents,
                     !.responseEvents = globalResponseEvents,
                     !.errorListeners = globalErrorListeners,
                     !.doneListeners = doneListeners]

\* Mutant of Instance_init: the instance entries are put in front of the
\* entries newDusk copied from the package lists.
Instance_init_prepend(dusk) ==
    [dusk EXCEPT !.requestEvents = ins.requestEvents \o @,
                 !.responseEvents = ins.responseEvent \o @,
                 !.errorListeners = ins.errorListeners \o @,
                 !.doneListeners = ins.doneListeners \o @]

\* Mutant of Instance_init: the instance error listeners are put in front
\* of the package error listeners.
Instance_init_errorsFirst(dusk) ==
    [dusk EXCEPT !.requestEvents = @ \o ins.requestEvents,
                 !.responseEvents = @ \o ins.responseEvent,
                 !.errorListeners = ins.errorListeners \o @,
                 !.doneListeners = @ \o ins.doneListeners]

\* func (ins *Instance) init(d), for an Instance made by NewInstance().
Instance_init(dusk) ==
    [dusk EXCEPT !.requestEvents = @ \o ins.requestEvents,
                 !.responseEvents = @ \o ins.responseEvent,
                 !.errorListeners = @ \o ins.errorListeners,
                 !.doneListeners = @ \o ins.doneListeners]

\* func (ins *Instance) Get(url): d := Get(url); ins.init(d)
Instance_Get ==
    /\ pc = "none"
    /\ d' = Instance_init(newDusk)
    /\ pc' = "built"
    /\ UNCHANGED <<globals, ins, locals, outside>>

\* func (d *Dusk) AddRequestListener(ln, eventType)
Dusk_AddRequestListener(eventType) ==
    /\ pc = "built"
    /\ Registered < MaxListeners
    /\ d' = [d EXCEPT !.requestEvents =
               Append(@, Entry("call", CountScope(@, "call") + 1, eventType))]
    /\ UNCHANGED <<globals, ins, pc, locals, outside>>

\* func (d *Dusk) AddResponseListener(ln, eventType)
Dusk_AddResponseListener(eventType) ==
    /\ pc = "built"
    /\ Registered < MaxListeners
    /\ d' = [d EXCEPT !.responseEvents =
               Append(@, Entry("call", CountScope(@, "call") + 1, eventType))]
    /\ UNCHANGED <<globals, ins, pc, locals, outside>>

\* func (d *Dusk) AddErrorListener(lnList ...)
Dusk_AddErrorListener ==
    /\ pc = "built"
    /\ Registered < MaxListeners
    /\ d' = [d EXCEPT !.errorListeners =
               Append(@, Entry("call", CountScope(@, "call") + 1, EventTypeNone))]
    /\ UNCHANGED <<globals, ins, pc, locals, outside>>

\* func (d *Dusk) AddDoneListener(lnList ...)
Dusk_AddDoneListener ==
    /\ pc = "built"
    /\ Registered < MaxListeners
    /\ d' = [d EXCEPT !.doneListeners =
               Append(@, Entry("call", CountScope(@, "call") + 1, EventTypeNone))]
    /\ UNCHANGED <<globals, ins, pc, locals, outside>>

\* func (d *Dusk) Timeout(timeout)
Dusk_Timeout ==
    /\ pc = "built"
    /\ Registered < MaxListeners
    /\ \E timeout \in TimeoutValues : d' = [d EXCEPT !.timeout = timeout]
    /\ UNCHANGED <<globals, ins, pc, locals, outside>>

\* func (d *Dusk) EnableTrace()
Dusk_EnableTrace ==
    /\ pc = "built"
    /\ Registered < MaxListeners
    /\ d' = [d EXCEPT !.enabledTrace = TRUE]
    /\ UNCHANGED <<globals, ins, pc, locals, outside>>

\* ---------------------------------------------------------------- Do()

\* What json.Marshal(data) and http.NewRequest(method, url, body) make of
\* the descriptor: both succeed, the first fails, or the second fails.
RenderOutcomes == {"ok", "marshal", "newRequest"}

\* Mutant of newRequest: the cancel listener is put in front of the done
\* listeners instead of behind them.
newRequest_cancelFirst(dusk, outcome) ==
    LET ctx == IF dusk.timeout # 0 THEN Append(dusk.ctx, "timeout") ELSE dusk.ctx
    IN  IF outcome # "ok"
        THEN [req |-> NoRequest, err |-> EngineErr(outcome), d |-> dusk]
        ELSE [req |-> [id |-> "rendered", ctx |-> ctx],
              err |-> NoErr,
              d |-> [dusk EXCEPT !.ctx = ctx,
                                 !.doneListeners =
                                    IF dusk.timeout # 0
                                    THEN <<CancelEntry>> \o @ ELSE @]]

\* Mutant of newRequest: a build error is dropped and a nil request returned.
newRequest_dropErr(dusk, outcome) ==
    LET ctx == IF dusk.timeout # 0 THEN Append(dusk.ctx, "timeout") ELSE dusk.ctx
    IN  IF outcome # "ok"
        THEN [req |-> NoRequest, err |-> NoErr, d |-> dusk]
        ELSE [req |-> [id |-> "rendered", ctx |-> ctx],
              err |-> NoErr,
              d |-> [dusk EXCEPT !.ctx = ctx,
                                 !.doneListeners =
                                    IF dusk.timeout # 0
                                    THEN Append(@, CancelEntry) ELSE @]]

\* func (d *Dusk) newRequest(): on a build error nothing else happens; else
\* the rendered request, the derived timeout context and the done listener
\* that calls cancel().
newRequest(dusk, outcome) ==
    LET ctx == IF dusk.timeout # 0 THEN Append(dusk.ctx, "timeout") ELSE dusk.ctx
    IN  IF outcome # "ok"
        THEN [req |-> NoRequest, err |-> EngineErr(outcome), d |-> dusk]
        ELSE [req |-> [id |-> "rendered", ctx |-> ctx],
              err |-> NoErr,
              d |-> [dusk EXCEPT !.ctx = ctx,
                                 !.doneListeners =
                                    IF dusk.timeout # 0
                                    THEN Append(@, CancelEntry) ELSE @]]

\* Do(): req, err := d.newRequest(); on error done() and return; otherwise
\* d.Request = req and do() starts: req := d.Request, EmitRequest(Before).
Do ==
    /\ pc = "built"
    /\ \E outcome \in RenderOutcomes :
         LET r == newRequest(d, outcome)
         IN  /\ log' = Append(log, EngineEvent("newRequest", outcome))
             /\ err' = r.err
             /\ IF Failed(r.err)
                THEN /\ d' = r.d
                     /\ pc' = "done"
                     /\ UNCHANGED <<req, i>>
                ELSE /\ d' = [r.d EXCEPT !.Request = r.req]
                     /\ req' = r.req
                     /\ pc' = "EmitRequestBefore"
                     /\ i' = Len(r.d.requestEvents)
    /\ UNCHANGED <<globals, ins, resp, ret, result, sent, outside>>

\* Mutant of PcRequest: the two EmitRequest calls of do() get each other's
\* event type.
PcRequest_swapped(t) == IF t = EventTypeBefore THEN "EmitRequestAfter" ELSE "EmitRequestBefore"

\* Where do() stands while EmitRequest(t) / EmitResponse(t) runs.
PcRequest(t) == IF t = EventTypeBefore THEN "EmitRequestBefore" ELSE "EmitRequestAfter"
PcResponse(t) == IF t = EventTypeBefore THEN "EmitResponseBefore" ELSE "EmitResponseAfter"

\* Mutant of LoopOver: the loop goes on after a listener returned an error.
LoopOver_exhausted == i = 0

\* The running Emit* loop has ended: index exhausted or a listener returned
\* an error.
LoopOver == i = 0 \/ Failed(ret)

\* func (d *Dusk) EmitRequest(t): one iteration of the loop, from the last
\* entry to the first; entries of the other phase are skipped.
EmitRequest(t) ==
    /\ pc = PcRequest(t)
    /\ ~LoopOver
    /\ LET e == d.requestEvents[i]
       IN  IF e.t # t
           THEN UNCHANGED <<d, ret, log>>
           ELSE \E out \in RequestOutcomes :
                  /\ log' = Append(log, Event("request", e, out))
                  /\ ret' = IF out = "err" THEN ListenerErr("request", e) ELSE NoErr
                  /\ d' = IF out = "setRequest"
                          THEN [d EXCEPT !.Request = ListenerRequest]
                          ELSE IF out = "setErr"
                          THEN [d EXCEPT !.Err = WrittenErr(e)]
                          ELSE d
    /\ i' = i - 1
    /\ UNCHANGED <<globals, ins, pc, req, resp, err, result, sent, outside>>

\* What c.Do(req) and ioutil.ReadAll(resp.Body) may answer.
TransportOutcomes == {"ok", "fail"}

\* func (ht *HTTPTrace) Finish(), in the one Do() call: Done is stamped.
HTTPTrace_Finish(trace) == [trace EXCEPT !.Done = TRUE]

\* Mutant of do_deferred: do() returns without running the deferred Finish().
do_deferred_none(dusk) == dusk

\* do(): `defer ht.Finish()`, the call do() runs when it returns, on every
\* path, if the trace block has run.
do_deferred(dusk) ==
    IF dusk.ht # NoHTTPTrace
    THEN [dusk EXCEPT !.ht = HTTPTrace_Finish(@)]
    ELSE dusk

\* Mutant of do_send: a failed c.Do(req) is tried a second time.
do_send_retry ==
    /\ pc = "EmitRequestBefore"
    /\ LoopOver
    /\ LET ctx == IF d.enabledTrace THEN Append(d.ctx, "trace") ELSE d.ctx
           r == IF d.enabledTrace THEN [req EXCEPT !.ctx = ctx] ELSE req
           traced == IF d.enabledTrace
                     THEN [d EXCEPT !.ctx = ctx, !.Request = r,
                                    !.ht = NewClientTrace]
                     ELSE d
       IN  /\ req' = r
           /\ IF Failed(ret)
              THEN /\ err' = ret
                   /\ d' = do_deferred(traced)
                   /\ pc' = "done"
                   /\ UNCHANGED <<resp, sent, log, i>>
              ELSE \E outcome \in TransportOutcomes :
                     /\ log' = Append(log, EngineEvent("send", outcome))
                     /\ IF outcome = "fail"
                        THEN /\ sent' = Append(Append(sent, r), r)
                             /\ err' = EngineErr("send")
                             /\ d' = do_deferred(traced)
                             /\ pc' = "done"
                             /\ UNCHANGED <<resp, i>>
                        ELSE /\ sent' = Append(sent, r)
                             /\ resp' = "received"
                             /\ err' = NoErr
                             /\ d' = traced
                             /\ pc' = "EmitRequestAfter"
                             /\ i' = Len(d.requestEvents)
    /\ ret' = NoErr
    /\ UNCHANGED <<globals, ins, result, outside>>

\* do(), from the return of EmitRequest(Before) to the call of
\* EmitRequest(After): the trace block, the error check, c.Do(req).
do_send ==
    /\ pc = "EmitRequestBefore"
    /\ LoopOver
    /\ LET ctx == IF d.enabledTrace THEN Append(d.ctx, "trace") ELSE d.ctx
           r == IF d.enabledTrace THEN [req EXCEPT !.ctx = ctx] ELSE req
           traced == IF d.enabledTrace
                     THEN [d EXCEPT !.ctx = ctx, !.Request = r,
                                    !.ht = NewClientTrace]
                     ELSE d
       IN  /\ req' = r
           /\ IF Failed(ret)
              THEN /\ err' = ret
                   /\ d' = do_deferred(traced)
                   /\ pc' = "done"
                   /\ UNCHANGED <<resp, sent, log, i>>
              ELSE \E outcome \in TransportOutcomes :
                     /\ sent' = Append(sent, r)
                     /\ log' = Append(log, EngineEvent("send", outcome))
                     /\ IF outcome = "fail"
                        THEN /\ err' = EngineErr("send")
                             /\ d' = do_deferred(traced)
                             /\ pc' = "done"
                             /\ UNCHANGED <<resp, i>>
                        ELSE /\ resp' = "received"
                             /\ err' = NoErr
                             /\ d' = traced
                             /\ pc' = "EmitRequestAfter"
                             /\ i' = Len(d.requestEvents)
    /\ ret' = NoErr
    /\ UNCHANGED <<globals, ins, result, outside>>

\* Mutant of do_response: d.Response is assigned before the error of the
\* request After listeners is looked at.
do_response_stored ==
    /\ pc = "EmitRequestAfter"
    /\ LoopOver
    /\ err' = ret
    /\ IF Failed(ret)
       THEN /\ d' = do_deferred([d EXCEPT !.Response = resp])
            /\ pc' = "done"
            /\ UNCHANGED i
       ELSE /\ d' = [d EXCEPT !.Response = resp]
            /\ pc' = "EmitResponseBefore"
            /\ i' = Len(d.responseEvents)
    /\ ret' = NoErr
    /\ UNCHANGED <<globals, ins, req, resp, result, sent, log, outside>>

\* do(), from the return of EmitRequest(After) to the call of
\* EmitResponse(Before): the error check and d.Response = resp.
do_response ==
    /\ pc = "EmitRequestAfter"
    /\ LoopOver
    /\ err' = ret
    /\ IF Failed(ret)
       THEN /\ d' = do_deferred(d)
            /\ pc' = "done"
            /\ UNCHANGED i
       ELSE /\ d' = [d EXCEPT !.Response = resp]
            /\ pc' = "EmitResponseBefore"
            /\ i' = Len(d.responseEvents)
    /\ ret' = NoErr
    /\ UNCHANGED <<globals, ins, req, resp, result, sent, log, outside>>

\* func (d *Dusk) EmitResponse(t): one iteration of the loop.
EmitResponse(t) ==
    /\ pc = PcResponse(t)
    /\ ~LoopOver
    /\ LET e == d.responseEvents[i]
       IN  IF e.t # t
           THEN UNCHANGED <<d, ret, log>>
           ELSE \E out \in ResponseOutcomes :
                  /\ log' = Append(log, Event("response", e, out))
                  /\ ret' = IF out = "err" THEN ListenerErr("response", e) ELSE NoErr
                  /\ d' = IF out = "setBody"
                          THEN [d EXCEPT !.Body = ListenerBody(e)]
                          ELSE IF out = "setErr"
                          THEN [d EXCEPT !.Err = WrittenErr(e)]
                          ELSE d
    /\ i' = i - 1
    /\ UNCHANGED <<globals, ins, pc, req, resp, err, result, sent, outside>>

\* Mutant of HasBody: the stored body is not looked at.
HasBody_never(dusk) == FALSE

\* do(): `d.Body != nil` after the response Before listeners.
HasBody(dusk) == dusk.Body # NoBody

\* do(), from the return of EmitResponse(Before) to the call of
\* EmitResponse(After): resp = d.Response, the d.Body != nil return, ReadAll.
do_read ==
    /\ pc = "EmitResponseBefore"
    /\ LoopOver
    /\ IF Failed(ret)
       THEN /\ err' = ret
            /\ d' = do_deferred(d)
            /\ pc' = "done"
            /\ UNCHANGED <<resp, log, i>>
       ELSE /\ resp' = d.Response
            /\ IF HasBody(d)
               THEN /\ err' = NoErr
                    /\ d' = do_deferred(d)
                    /\ pc' = "done"
                    /\ UNCHANGED <<log, i>>
               ELSE \E outcome \in TransportOutcomes :
                      /\ log' = Append(log, EngineEvent("read", outcome))
                      /\ IF outcome = "fail"
                         THEN /\ err' = EngineErr("read")
                              /\ d' = do_deferred(d)
                              /\ pc' = "done"
                              /\ UNCHANGED i
                         ELSE /\ d' = [d EXCEPT !.Body = WireBody]
                              /\ err' = NoErr
                              /\ pc' = "EmitResponseAfter"
                              /\ i' = Len(d.responseEvents)
    /\ ret' = NoErr
    /\ UNCHANGED <<globals, ins, req, result, sent, outside>>

\* do(), the return of EmitResponse(After) and of do().
do_return ==
    /\ pc = "EmitResponseAfter"
    /\ LoopOver
    /\ err' = ret
    /\ d' = do_deferred(d)
    /\ pc' = "done"
    /\ ret' = NoErr
    /\ UNCHANGED <<globals, ins, req, resp, i, result, sent, log, outside>>

\* Mutant of Do_done: done() calls EmitError whatever err holds.
Do_done_always ==
    /\ pc = "done"
    /\ IF ~Failed(err)
       THEN result' = [result EXCEPT !.resp = d.Response, !.body = d.Body]
       ELSE UNCHANGED result
    /\ pc' = "EmitError"
    /\ i' = 1
    /\ ret' = NoErr
    /\ UNCHANGED <<globals, ins, d, req, resp, err, sent, log, outside>>

\* Do() after newRequest or do() returned: on success resp = d.Response and
\* body = d.Body; then done() starts, with EmitError(err) when err != nil.
Do_done ==
    /\ pc = "done"
    /\ IF Failed(err)
       THEN /\ pc' = "EmitError"
            /\ i' = 1
            /\ UNCHANGED result
       ELSE /\ result' = [result EXCEPT !.resp = d.Response, !.body = d.Body]
            /\ pc' = "EmitDone"
            /\ i' = Len(d.doneListeners)
    /\ ret' = NoErr
    /\ UNCHANGED <<globals, ins, d, req, resp, err, sent, log, outside>>

\* func (d *Dusk) EmitError(currentErr): one iteration, first entry first.
EmitError ==
    /\ pc = "EmitError"
    /\ i <= Len(d.errorListeners)
    /\ ~Failed(ret)
    /\ LET e == d.errorListeners[i]
       IN  \E out \in ErrorOutcomes :
             /\ log' = Append(log, ErrorEvent(e, out, err))
             /\ ret' = IF out = "err" THEN ListenerErr("error", e) ELSE NoErr
    /\ i' = i + 1
    /\ UNCHANGED <<globals, ins, d, pc, req, resp, err, result, sent, outside>>

\* Mutant of done_EmitDone: d.Err is assigned before the done listeners run.
done_EmitDone_storing ==
    /\ pc = "EmitError"
    /\ (i > Len(d.errorListeners) \/ Failed(ret))
    /\ err' = Replaced(err, ret)
    /\ d' = [d EXCEPT !.Err = Replaced(err, ret)]
    /\ pc' = "EmitDone"
    /\ i' = Len(d.doneListeners)
    /\ ret' = NoErr
    /\ UNCHANGED <<globals, ins, req, resp, result, sent, log, outside>>

\* done(), from the return of EmitError to the call of EmitDone.
done_EmitDone ==
    /\ pc = "EmitError"
    /\ (i > Len(d.errorListeners) \/ Failed(ret))
    /\ err' = Replaced(err, ret)
    /\ pc' = "EmitDone"
    /\ i' = Len(d.doneListeners)
    /\ ret' = NoErr
    /\ UNCHANGED <<globals, ins, d, req, resp, result, sent, log, outside>>

\* func (d *Dusk) EmitDone(): one iteration, last entry first. The listener
\* newRequest added calls cancel() and returns nil.
EmitDone ==
    /\ pc = "EmitDone"
    /\ ~LoopOver
    /\ LET e == d.doneListeners[i]
       IN  IF e = CancelEntry
           THEN /\ log' = Append(log, Event("cancel", e, "nil"))
                /\ UNCHANGED ret
           ELSE \E out \in DoneOutcomes :
                  /\ log' = Append(log, Event("done", e, out))
                  /\ ret' = IF out = "err" THEN ListenerErr("done", e) ELSE NoErr
    /\ i' = i - 1
    /\ UNCHANGED <<globals, ins, d, pc, req, resp, err, result, sent, outside>>

\* done(), from the return of EmitDone to the return of Do(): d.Err = err.
Do_return ==
    /\ pc = "EmitDone"
    /\ LoopOver
    /\ LET final == Replaced(err, ret)
       IN  /\ err' = final
           /\ d' = [d EXCEPT !.Err = final]
           /\ result' = [result EXCEPT !.err = final]
    /\ pc' = "returned"
    /\ ret' = NoErr
    /\ UNCHANGED <<globals, ins, req, resp, i, sent, log, outside>>

\* ------------------------------------------------------------ specification

Next ==
    \/ \E t \in {EventTypeBefore, EventTypeAfter} : AddRequestListener(t)
    \/ \E t \in {EventTypeBefore, EventTypeAfter} : AddResponseListener(t)
    \/ AddErrorListener
    \/ AddDoneListener
    \/ \E t \in {EventTypeBefore, EventTypeAfter} : Instance_AddRequestListener(t)
    \/ \E t \in {EventTypeBefore, EventTypeAfter} : Instance_AddResponseListener(t)
    \/ Instance_AddErrorListener
    \/ Instance_AddDoneListener
    \/ Instance_Get
    \/ \E t \in {EventTypeBefore, EventTypeAfter} : Dusk_AddRequestListener(t)
    \/ \E t \in {EventTypeBefore, EventTypeAfter} : Dusk_AddResponseListener(t)
    \/ Dusk_AddErrorListener
    \/ Dusk_AddDoneListener
    \/ Dusk_Timeout
    \/ Dusk_EnableTrace
    \/ Do
    \/ EmitRequest(EventTypeBefore)
    \/ do_send
    \/ EmitRequest(EventTypeAfter)
    \/ do_response
    \/ EmitResponse(EventTypeBefore)
    \/ do_read
    \/ EmitResponse(EventTypeAfter)
    \/ do_return
    \/ Do_done
    \/ EmitError
    \/ done_EmitDone
    \/ EmitDone
    \/ Do_return

Spec == Init /\ [][Next]_vars

\* ------------------------------------------------------ response decoding

\* func snappyDecoder(resp): reads the body to its end, closes it, and
\* decodes the bytes; bytes that are not snappy data give an error.
snappyDecoder(r) ==
    [resp |-> [r EXCEPT !.closed = TRUE],
     buf |-> IF r.payload.format = SnappyEncoding
             THEN Bytes("plain", r.payload.text) ELSE NoBytes,
     err |-> IF r.payload.format = SnappyEncoding THEN "" ELSE "snappy: corrupt input"]

\* func brDecoder(resp): the same with a brotli reader.
brDecoder(r) ==
    [resp |-> [r EXCEPT !.closed = TRUE],
     buf |-> IF r.payload.format = BrEncoding
             THEN Bytes("plain", r.payload.text) ELSE NoBytes,
     err |-> IF r.payload.format = BrEncoding THEN "" ELSE "brotli: corrupt input"]

\* The Decoder function value handed to decode, called on resp.
RunDecoder(decoder, r) ==
    IF decoder = "snappyDecoder" THEN snappyDecoder(r) ELSE brDecoder(r)

\* Mutant of decode: the Content-Length header is left in place.
decode_keepLength(r, dusk, encoding, decoder) ==
    IF r.contentEncoding # encoding
    THEN [resp |-> r, d |-> dusk, err |-> ""]
    ELSE LET marked == [r EXCEPT !.Uncompressed = TRUE, !.contentEncoding = ""]
             dec == RunDecoder(decoder, marked)
         IN  IF dec.err # ""
             THEN [resp |-> dec.resp, d |-> dusk, err |-> dec.err]
             ELSE [resp |-> dec.resp, d |-> [dusk EXCEPT !.Body = dec.buf], err |-> ""]

\* func decode(resp, d, encoding, decoder): nothing when the Content-Encoding
\* header is not `encoding`; else the response is marked uncompressed, both
\* headers are deleted and the decoded bytes are stored in d.Body.
decode(r, dusk, encoding, decoder) ==
    IF r.contentEncoding # encoding
    THEN [resp |-> r, d |-> dusk, err |-> ""]
    ELSE LET marked == [r EXCEPT !.Uncompressed = TRUE, !.contentEncoding = "",
                                 !.contentLength = FALSE]
             dec == RunDecoder(decoder, marked)
         IN  IF dec.err # ""
             THEN [resp |-> dec.resp, d |-> dusk, err |-> dec.err]
             ELSE [resp |-> dec.resp, d |-> [dusk EXCEPT !.Body = dec.buf], err |-> ""]

\* func SnappyDecode(resp, d) and func BrDecode(resp, d)
SnappyDecode(r, dusk) == decode(r, dusk, SnappyEncoding, "snappyDecoder")
BrDecode(r, dusk) == decode(r, dusk, BrEncoding, "brDecoder")

\* func (d *Dusk) addAcceptEncoding(encoding): the Accept-Encoding header,
\* as the list of its comma separated values.
addAcceptEncoding(dusk, encoding) ==
    [dusk EXCEPT !.acceptEncoding =
        Append(IF @ = <<>> THEN <<GzipEncoding>> ELSE @, encoding)]

\* func (d *Dusk) isDisableCompression()
isDisableCompression(dusk) == dusk.disableCompression

\* d := Get(url), with or without SetClient(c) for a client whose transport
\* has DisableCompression set.
Decode_Get ==
    /\ pcDec = "none"
    /\ \E disable \in BOOLEAN :
         dDec' = [ZeroDecodeDusk EXCEPT !.disableCompression = disable]
    /\ pcDec' = "built"
    /\ UNCHANGED <<reply, respDec, iDec, errDec, resultDec, decodeFrame>>

\* func (d *Dusk) Snappy()
Dusk_Snappy ==
    /\ pcDec = "built"
    /\ Len(dDec.responseEvents) < MaxDecoders
    /\ dDec' = IF isDisableCompression(dDec)
               THEN dDec
               ELSE [addAcceptEncoding(dDec, SnappyEncoding)
                       EXCEPT !.responseEvents =
                         Append(@, [ln |-> "SnappyDecode", t |-> EventTypeBefore])]
    /\ UNCHANGED <<reply, respDec, pcDec, iDec, errDec, resultDec, decodeFrame>>

\* func (d *Dusk) Br()
Dusk_Br ==
    /\ pcDec = "built"
    /\ Len(dDec.responseEvents) < MaxDecoders
    /\ dDec' = IF isDisableCompression(dDec)
               THEN dDec
               ELSE [addAcceptEncoding(dDec, BrEncoding)
                       EXCEPT !.responseEvents =
                         Append(@, [ln |-> "BrDecode", t |-> EventTypeBefore])]
    /\ UNCHANGED <<reply, respDec, pcDec, iDec, errDec, resultDec, decodeFrame>>

\* Do() up to the call of EmitResponse(Before), for a request that renders
\* and a transport that answers: c.Do(req) returns the server's reply and
\* d.Response = resp.
Decode_Do ==
    /\ pcDec = "built"
    /\ \E r \in Replies :
         /\ reply' = r
         /\ respDec' = Received(r)
    /\ dDec' = [dDec EXCEPT !.hasResponse = TRUE]
    /\ pcDec' = "EmitResponseBefore"
    /\ iDec' = Len(dDec.responseEvents)
    /\ UNCHANGED <<errDec, resultDec, decodeFrame>>

\* EmitResponse(EventTypeBefore): one iteration, last entry first; the
\* entries are the decoders Snappy() and Br() registered.
Decode_EmitResponse ==
    /\ pcDec = "EmitResponseBefore"
    /\ iDec > 0
    /\ errDec = ""
    /\ LET e == dDec.responseEvents[iDec]
           r == IF e.ln = "SnappyDecode"
                THEN SnappyDecode(respDec, dDec) ELSE BrDecode(respDec, dDec)
       IN  /\ respDec' = r.resp
           /\ dDec' = r.d
           /\ errDec' = r.err
    /\ iDec' = iDec - 1
    /\ UNCHANGED <<reply, pcDec, resultDec, decodeFrame>>

\* do() from the return of EmitResponse(Before), and the return of Do(): on
\* an error Do() returns it with a nil response and body; with a stored body
\* the read is skipped; else ioutil.ReadAll(resp.Body) fills d.Body.
Decode_do_read ==
    /\ pcDec = "EmitResponseBefore"
    /\ (iDec = 0 \/ errDec # "")
    /\ IF errDec # ""
       THEN /\ resultDec' = [resp |-> NoResponse, body |-> NoBytes, err |-> errDec]
            /\ UNCHANGED <<dDec, respDec>>
       ELSE IF dDec.Body # NoBytes
       THEN /\ resultDec' = [resp |-> respDec, body |-> dDec.Body, err |-> ""]
            /\ UNCHANGED <<dDec, respDec>>
       ELSE IF respDec.closed
       THEN /\ resultDec' = [resp |-> NoResponse, body |-> NoBytes,
                             err |-> "read on closed response body"]
            /\ UNCHANGED <<dDec, respDec>>
       ELSE /\ dDec' = [dDec EXCEPT !.Body = respDec.payload]
            /\ respDec' = [respDec EXCEPT !.closed = TRUE]
            /\ resultDec' = [resp |-> respDec', body |-> respDec.payload, err |-> ""]
    /\ pcDec' = "returned"
    /\ UNCHANGED <<reply, iDec, errDec, decodeFrame>>

NextDecode ==
    \/ Decode_Get
    \/ Dusk_Snappy
    \/ Dusk_Br
    \/ Decode_Do
    \/ Decode_EmitResponse
    \/ Decode_do_read

SpecDecode == Init /\ [][NextDecode]_vars

\* ------------------------------------------------------------ registry race

\* The package list named `list`, as a goroutine reads it now.
GlobalList(list) ==
    CASE list = "globalRequestEvents" -> globalRequestEvents
      [] list = "globalResponseEvents" -> globalResponseEvents
      [] list = "globalErrorListeners" -> globalErrorListeners
      [] OTHER -> doneListeners

\* A goroutine calls one of the package functions; the listener it registers
\* is named by the goroutine.
Race_Call(g) ==
    /\ gor[g].pc = "idle"
    /\ \E op \in RegistryOps :
         \E t \in IF op \in {"AddRequestListener", "AddResponseListener"}
                  THEN {EventTypeBefore, EventTypeAfter} ELSE {EventTypeNone} :
            gor' = [gor EXCEPT ![g].op = op,
                               ![g].t = t,
                               ![g].list = ListOf(op),
                               ![g].pc = IF op = "newDusk" THEN "check" ELSE "read"]
    /\ UNCHANGED <<globals, raceFrame>>

\* Add*Listener, `list = append(list, e)`: the slice is read (no lock is
\* taken anywhere in these functions).
Race_append_read(g) ==
    /\ gor[g].pc = "read"
    /\ gor' = [gor EXCEPT ![g].old = GlobalList(gor[g].list), ![g].pc = "write"]
    /\ UNCHANGED <<globals, raceFrame>>

\* Add*Listener, `list = append(list, e)`: the slice read before, with the
\* new entry, is stored in the package variable.
Race_append_write(g) ==
    /\ gor[g].pc = "write"
    /\ LET new == Append(gor[g].old, Entry("global", g, gor[g].t))
           list == gor[g].list
       IN  /\ globalRequestEvents' =
                IF list = "globalRequestEvents" THEN new ELSE globalRequestEvents
           /\ globalResponseEvents' =
                IF list = "globalResponseEvents" THEN new ELSE globalResponseEvents
           /\ globalErrorListeners' =
                IF list = "globalErrorListeners" THEN new ELSE globalErrorListeners
           /\ doneListeners' =
                IF list = "doneListeners" THEN new ELSE doneListeners
    /\ gor' = [gor EXCEPT ![g].pc = "done"]
    /\ UNCHANGED raceFrame

\* newDusk, `if list != nil`: the package list is read; a nil list is passed
\* over.
Race_newDusk_check(g) ==
    /\ gor[g].pc = "check"
    /\ gor' = IF GlobalList(gor[g].list) # <<>>
              THEN [gor EXCEPT ![g].pc = "copy"]
              ELSE IF ListAfter(gor[g].list) = "none"
              THEN [gor EXCEPT ![g].pc = "done"]
              ELSE [gor EXCEPT ![g].list = ListAfter(gor[g].list)]
    /\ UNCHANGED <<globals, raceFrame>>

\* newDusk, `d.add...(list...)`: the package list is read again and its
\* entries are appended to the new Dusk.
Race_newDusk_copy(g) ==
    /\ gor[g].pc = "copy"
    /\ LET list == gor[g].list
           copied == [gor EXCEPT ![g].dusk[list] = GlobalList(list)]
       IN  gor' = IF ListAfter(list) = "none"
                  THEN [copied EXCEPT ![g].pc = "done"]
                  ELSE [copied EXCEPT ![g].pc = "check", ![g].list = ListAfter(list)]
    /\ UNCHANGED <<globals, raceFrame>>

NextRace ==
    \E g \in Goroutines :
        \/ Race_Call(g)
        \/ Race_append_read(g)
        \/ Race_append_write(g)
        \/ Race_newDusk_check(g)
        \/ Race_newDusk_copy(g)

SpecRace == Init /\ [][NextRace]_vars

\* ----------------------------------------------------------------- tracing

\* time.Now() moves on.
Tick ==
    /\ now < MaxTime
    /\ now' = now + 1
    /\ UNCHANGED <<ht, mu, th, traceFrame>>

\* sync.RWMutex: Lock() returns when no goroutine holds the lock in either
\* mode, RLock() when no goroutine holds it for writing.
CanLock == mu.writer = NoThread /\ mu.readers = {}
CanRLock == mu.writer = NoThread

\* The transport passes over a callback that does not apply to the request
\* (a reused connection has no DNS, connect and TLS steps).
Callback_skip ==
    /\ th[Transport].pc = "idle"
    /\ th[Transport].k <= Len(Callbacks)
    /\ th' = [th EXCEPT ![Transport].k = @ + 1]
    /\ UNCHANGED <<ht, mu, now, traceFrame>>

\* A trace callback of NewClientTrace: ht.Lock()
Callback_Lock ==
    /\ th[Transport].pc = "idle"
    /\ th[Transport].k <= Len(Callbacks)
    /\ CanLock
    /\ mu' = [mu EXCEPT !.writer = Transport]
    /\ th' = [th EXCEPT ![Transport].pc = "callback"]
    /\ UNCHANGED <<ht, now, traceFrame>>

\* A trace callback of NewClientTrace: its time stamp = time.Now(), and the
\* deferred ht.Unlock()
Callback_stamp ==
    /\ th[Transport].pc = "callback"
    /\ ht' = [ht EXCEPT ![FieldOf(Callbacks[th[Transport].k])] = now]
    /\ mu' = [mu EXCEPT !.writer = NoThread]
    /\ th' = [th EXCEPT ![Transport].pc = "idle", ![Transport].k = @ + 1]
    /\ UNCHANGED <<now, traceFrame>>

\* Calls begun by the callers, for the bound.
CallsBegun == LET Sum[n \in 0..MaxCallers] ==
                      IF n = 0 THEN 0 ELSE Sum[n - 1] + th[n].calls
              IN  Sum[MaxCallers]

\* func (ht *HTTPTrace) Finish(): ht.Lock()
Finish_Lock(g) ==
    /\ th[g].pc = "idle"
    /\ CallsBegun < MaxCalls
    /\ CanLock
    /\ mu' = [mu EXCEPT !.writer = g]
    /\ th' = [th EXCEPT ![g].pc = "Finish", ![g].calls = @ + 1]
    /\ UNCHANGED <<ht, now, traceFrame>>

\* func (ht *HTTPTrace) Finish(): ht.Done = time.Now(), deferred ht.Unlock()
Finish_stamp(g) ==
    /\ th[g].pc = "Finish"
    /\ ht' = [ht EXCEPT !.Done = now]
    /\ mu' = [mu EXCEPT !.writer = NoThread]
    /\ th' = [th EXCEPT ![g].pc = "idle"]
    /\ UNCHANGED <<now, traceFrame>>

\* func (ht *HTTPTrace) Stats(): stats = &HTTPTimelineStats{}, ht.RLock()
Stats_RLock(g) ==
    /\ th[g].pc = "idle"
    /\ CallsBegun < MaxCalls
    /\ CanRLock
    /\ mu' = [mu EXCEPT !.readers = @ \cup {g}]
    /\ th' = [th EXCEPT ![g].pc = "Stats", ![g].calls = @ + 1,
                        ![g].stats = ZeroStats, ![g].returned = FALSE]
    /\ UNCHANGED <<ht, now, traceFrame>>

\* A duration of Stats(): end.Sub(start) when neither time stamp is zero.
Sub(end, start) == end - start
Between(start, end) ==
    IF ht[start] # 0 /\ ht[end] # 0 THEN Sub(ht[end], ht[start]) ELSE 0

\* Stats(): the four durations that have a start and an end stamp, then
\* `if ht.Done.IsZero() { ht.Done = time.Now() }`.
Stats_Done(g) ==
    /\ th[g].pc = "Stats"
    /\ th' = [th EXCEPT
                ![g].stats = [@ EXCEPT
                    !.DNSLookup = Between("DNSStart", "DNSDone"),
                    !.TCPConnection = Between("ConnectStart", "ConnectDone"),
                    !.TLSHandshake = Between("TLSHandshakeStart", "TLSHandshakeDone"),
                    !.ServerProcessing = Between("GotConnect", "GotFirstResponseByte")],
                ![g].pc = "Stats_rest"]
    /\ ht' = IF ht.Done = 0 THEN [ht EXCEPT !.Done = now] ELSE ht
    /\ UNCHANGED <<mu, now, traceFrame>>

\* Stats(): ContentTransfer and Total from ht.Done, the deferred
\* ht.RUnlock() and the return.
Stats_return(g) ==
    /\ th[g].pc = "Stats_rest"
    /\ th' = [th EXCEPT
                ![g].stats = [@ EXCEPT
                    !.ContentTransfer =
                        IF ht.GotFirstResponseByte # 0
                        THEN Sub(ht.Done, ht.GotFirstResponseByte) ELSE 0,
                    !.Total = Sub(ht.Done, ht.Start)],
                ![g].returned = TRUE,
                ![g].pc = "idle"]
    /\ mu' = [mu EXCEPT !.readers = @ \ {g}]
    /\ UNCHANGED <<ht, now, traceFrame>>

NextTrace ==
    \/ Tick
    \/ Callback_skip
    \/ Callback_Lock
    \/ Callback_stamp
    \/ \E g \in Callers : Finish_Lock(g)
    \/ \E g \in Callers : Finish_stamp(g)
    \/ \E g \in Callers : Stats_RLock(g)
    \/ \E g \in Callers : Stats_Done(g)
    \/ \E g \in Callers : Stats_return(g)

SpecTrace == Init /\ [][NextTrace]_vars

\* --------------------------------------------------------------- rendering

\* m[key] = value on a Go map.
MapSet(m, key, value) ==
    [k \in DOMAIN m \cup {key} |-> IF k = key THEN value ELSE m[k]]

\* http.Header.Get: the value of the header, "" when it is not there.
Header_Get(header, key) == IF key \in DOMAIN header THEN header[key] ELSE ""

\* func (d *Dusk) Set(key, value)
Set(dusk, key, value) == [dusk EXCEPT !.header = MapSet(@, key, value)]

\* func (d *Dusk) Type(contentType)
Type(dusk, contentType) ==
    Set(dusk, HeaderContentType,
        CASE contentType = jsonType -> MIMEApplicationJSON
          [] contentType = formType -> MIMEApplicationFormUrlencoded
          [] OTHER -> contentType)

\* strings.Replace(s, old, new, -1): every non-overlapping occurrence of
\* old, from the left, becomes new (old is never empty here).
RECURSIVE Replace(_, _, _)
Replace(s, old, new) ==
    IF Len(s) < Len(old) THEN s
    ELSE IF SubSeq(s, 1, Len(old)) = old
    THEN new \o Replace(SubSeq(s, Len(old) + 1, Len(s)), old, new)
    ELSE <<Head(s)>> \o Replace(Tail(s), old, new)

\* strings.Contains(s, c) for a one-character c.
Contains(s, c) == \E k \in 1..Len(s) : s[k] = c

\* url.QueryEscape on the characters of the values: a space becomes "+".
QueryEscape(s) == [k \in 1..Len(s) |-> IF s[k] = " " THEN "+" ELSE s[k]]

\* url.Values.Encode(): "key=value" for the keys in sorted order, joined
\* by "&".
RECURSIVE EncodeFrom(_, _)
EncodeFrom(query, k) ==
    IF k > Len(QueryKeys) THEN <<>>
    ELSE LET key == QueryKeys[k]
             here == IF key \in DOMAIN query
                     THEN <<key, "=">> \o QueryEscape(query[key]) ELSE <<>>
             rest == EncodeFrom(query, k + 1)
         IN  IF here = <<>> THEN rest
             ELSE IF rest = <<>> THEN here
             ELSE here \o <<"&">> \o rest
Encode(query) == EncodeFrom(query, 1)

\* The orders in which `range` may go through the keys of a map.
Orders(keys) ==
    {o \in [1..Cardinality(keys) -> keys] :
        \A a, b \in 1..Cardinality(keys) : a # b => o[a] # o[b]}

\* GetURL(): the loop `for key, value := range d.params`, in one order.
RECURSIVE Substitute(_, _, _, _)
Substitute(url, params, order, k) ==
    IF k > Len(order) THEN url
    ELSE Substitute(Replace(url, <<":">> \o order[k], params[order[k]]),
                    params, order, k + 1)

\* func (d *Dusk) GetURL(), when range goes through d.params in that order.
GetURL(dusk, order) ==
    LET url == Substitute(dusk.url, dusk.params, order, 1)
    IN  IF DOMAIN dusk.query # {}
        THEN IF Contains(url, "?")
             THEN url \o <<"&">> \o Encode(dusk.query)
             ELSE url \o <<"?">> \o Encode(dusk.query)
        ELSE url

\* func (d *Dusk) newRequest(), the descriptor part: the content type it
\* sets on d.header, the URL and the headers of the request it returns.
newRequest_render(dusk, order) ==
    LET formed == IF dusk.data = "url.Values" THEN Type(dusk, formType) ELSE dusk
        typed == IF dusk.data # "nil" /\ Header_Get(formed.header, HeaderContentType) = ""
                 THEN Type(formed, jsonType) ELSE formed
    IN  IF dusk.data = "func"
        THEN [d |-> dusk, err |-> "json: unsupported type", url |-> <<>>,
              header |-> NilMap]
        ELSE [d |-> typed, err |-> "", url |-> GetURL(typed, order),
              header |-> typed.header]

\* func Post(url): a Dusk for that URL template.
Render_Post ==
    /\ pcReq = "none"
    /\ \E url \in URLTemplates : dReq' = [ZeroRequestDusk EXCEPT !.url = url]
    /\ pcReq' = "built"
    /\ UNCHANGED <<renders, builderCalls, renderFrame>>

\* A builder call can be made.
CanBuild == pcReq = "built" /\ builderCalls < MaxBuilderCalls

\* func (d *Dusk) Param(key, value)
Render_Param ==
    /\ CanBuild
    /\ \E key \in ParamKeys, value \in ParamValues :
         dReq' = [dReq EXCEPT !.params = MapSet(@, key, value)]
    /\ renders' = <<>>
    /\ builderCalls' = builderCalls + 1
    /\ UNCHANGED <<pcReq, renderFrame>>

\* func (d *Dusk) Query(key, value)
Render_Query ==
    /\ CanBuild
    /\ \E k \in 1..Len(QueryKeys), value \in QueryValues :
         dReq' = [dReq EXCEPT !.query = MapSet(@, QueryKeys[k], value)]
    /\ renders' = <<>>
    /\ builderCalls' = builderCalls + 1
    /\ UNCHANGED <<pcReq, renderFrame>>

\* func (d *Dusk) Set(key, value), as the caller uses it
Render_Set ==
    /\ CanBuild
    /\ \E key \in HeaderKeys, value \in HeaderValues : dReq' = Set(dReq, key, value)
    /\ renders' = <<>>
    /\ builderCalls' = builderCalls + 1
    /\ UNCHANGED <<pcReq, renderFrame>>

\* func (d *Dusk) Type(contentType), as the caller uses it
Render_Type ==
    /\ CanBuild
    /\ \E contentType \in ContentTypes : dReq' = Type(dReq, contentType)
    /\ renders' = <<>>
    /\ builderCalls' = builderCalls + 1
    /\ UNCHANGED <<pcReq, renderFrame>>

\* func (d *Dusk) Send(data)
Render_Send ==
    /\ CanBuild
    /\ \E data \in SendData : dReq' = [dReq EXCEPT !.data = data]
    /\ renders' = <<>>
    /\ builderCalls' = builderCalls + 1
    /\ UNCHANGED <<pcReq, renderFrame>>

\* A call of d.GetURL() by the caller.
Render_GetURL ==
    /\ pcReq = "built"
    /\ Len(renders) < MaxRenders
    /\ \E order \in Orders(DOMAIN dReq.params) :
         renders' = Append(renders,
                           [call |-> "GetURL", before |-> dReq, err |-> "",
                            url |-> GetURL(dReq, order), header |-> NilMap])
    /\ UNCHANGED <<dReq, pcReq, builderCalls, renderFrame>>

\* A call of d.newRequest() (by Do()).
Render_newRequest ==
    /\ pcReq = "built"
    /\ Len(renders) < MaxRenders
    /\ \E order \in Orders(DOMAIN dReq.params) :
         LET r == newRequest_render(dReq, order)
         IN  /\ dReq' = r.d
             /\ renders' = Append(renders,
                                  [call |-> "newRequest", before |-> dReq,
                                   err |-> r.err, url |-> r.url,
                                   header |-> r.header])
    /\ UNCHANGED <<pcReq, builderCalls, renderFrame>>

NextRender ==
    \/ Render_Post
    \/ Render_Param
    \/ Render_Query
    \/ Render_Set
    \/ Render_Type
    \/ Render_Send
    \/ Render_GetURL
    \/ Render_newRequest

SpecRender == Init /\ [][NextRender]_vars

\* -------------------------------------------------------- On/Emit revision

\* A caller may still configure the Dusk that New() returned.
CanConfigure == pcEmit = "new"

\* func (d *Dusk) On(name, ln)
On(name) ==
    /\ CanConfigure
    /\ Len(dEmit.events) < MaxEvents
    /\ LET n == Cardinality({k \in 1..Len(dEmit.events) : dEmit.events[k].Name = name})
       IN  dEmit' = [dEmit EXCEPT !.events = Append(@, EmitEvent(name, n + 1))]
    /\ UNCHANGED <<pcEmit, iEmit, resultEmit, logEmit, emitFrame>>

\* d.ConvertError = func(err, d) error {...}
Set_ConvertError ==
    /\ CanConfigure
    /\ ~dEmit.ConvertError
    /\ dEmit' = [dEmit EXCEPT !.ConvertError = TRUE]
    /\ UNCHANGED <<pcEmit, iEmit, resultEmit, logEmit, emitFrame>>

\* d.Timeout = a non-zero duration
Set_Timeout ==
    /\ CanConfigure
    /\ dEmit.Timeout = 0
    /\ dEmit' = [dEmit EXCEPT !.Timeout = 1]
    /\ UNCHANGED <<pcEmit, iEmit, resultEmit, logEmit, emitFrame>>

\* func (d *Dusk) Get(url, query): NewRequest(), which registers the done
\* listener of a timeout also when http.NewRequest failed (and then calls
\* WithContext on the nil request, which panics), then on success Do() and
\* do() up to the call of Emit(EventRequest).
Emit_Get ==
    /\ CanConfigure
    /\ \E outcome \in {"ok", "newRequest"} :
         /\ logEmit' = Append(logEmit, [ev |-> "NewRequest", n |-> 0, out |-> outcome,
                                        seen |-> dEmit.Error])
         /\ dEmit' = [dEmit EXCEPT !.events =
                         IF dEmit.Timeout # 0 THEN Append(@, CancelEvent) ELSE @]
         /\ IF outcome = "ok"
            THEN /\ pcEmit' = EventRequest
                 /\ iEmit' = 1
                 /\ UNCHANGED resultEmit
            ELSE IF dEmit.Timeout # 0
            THEN /\ pcEmit' = "panicked"
                 /\ UNCHANGED <<iEmit, resultEmit>>
            ELSE /\ pcEmit' = "returned"
                 /\ resultEmit' = [resultEmit EXCEPT !.err = DoError("newRequest")]
                 /\ UNCHANGED iEmit
    /\ UNCHANGED emitFrame

\* func (d *Dusk) Emit(name): one iteration of `for _, e := range d.events`;
\* the listener sees the Dusk (its Error field) and may assign d.Error.
Emit(name) ==
    /\ pcEmit = name
    /\ iEmit <= Len(dEmit.events)
    /\ LET e == dEmit.events[iEmit]
       IN  IF e.Name # name
           THEN UNCHANGED <<dEmit, logEmit>>
           ELSE \E out \in (IF e = CancelEvent THEN {"nil"} ELSE ListenerOutcomes) :
                  /\ logEmit' = Append(logEmit, [ev |-> name, n |-> e.n, out |-> out,
                                                 seen |-> dEmit.Error])
                  /\ dEmit' = IF out = "setError"
                              THEN [dEmit EXCEPT !.Error = StoredError(e)]
                              ELSE dEmit
    /\ iEmit' = iEmit + 1
    /\ UNCHANGED <<pcEmit, resultEmit, emitFrame>>

\* The running Emit has gone through d.events.
EmitOver == iEmit > Len(dEmit.events)

\* Mutant of do_Emit: the request is sent without looking at d.Error.
do_Emit_unchecked ==
    /\ pcEmit = EventRequest
    /\ EmitOver
    /\ \E outcome \in {"ok", "send", "read"} :
         /\ logEmit' = Append(logEmit, [ev |-> "send", n |-> 0, out |-> outcome,
                                        seen |-> dEmit.Error])
         /\ dEmit' = CASE outcome = "send" -> [dEmit EXCEPT !.Error = DoError("send")]
                       [] outcome = "read" -> [dEmit EXCEPT !.Response = "received",
                                                           !.Error = DoError("read")]
                       [] OTHER -> [dEmit EXCEPT !.Response = "received",
                                                 !.Body = "wire"]
         /\ IF outcome = "ok"
            THEN pcEmit' = EventResponse /\ iEmit' = 1
            ELSE pcEmit' = "do" /\ UNCHANGED iEmit
    /\ UNCHANGED <<resultEmit, emitFrame>>

\* do(), from the return of Emit(EventRequest): the d.Error check, c.Do(req),
\* ioutil.ReadAll, and the call of Emit(EventResponse).
do_Emit ==
    /\ pcEmit = EventRequest
    /\ EmitOver
    /\ IF dEmit.Error # NoError
       THEN /\ pcEmit' = "do"
            /\ UNCHANGED <<dEmit, iEmit, logEmit>>
       ELSE \E outcome \in {"ok", "send", "read"} :
              /\ logEmit' = Append(logEmit, [ev |-> "send", n |-> 0, out |-> outcome,
                                             seen |-> dEmit.Error])
              /\ dEmit' = CASE outcome = "send" -> [dEmit EXCEPT !.Error = DoError("send")]
                            [] outcome = "read" -> [dEmit EXCEPT !.Response = "received",
                                                                !.Error = DoError("read")]
                            [] OTHER -> [dEmit EXCEPT !.Response = "received",
                                                      !.Body = "wire"]
              /\ IF outcome = "ok"
                 THEN pcEmit' = EventResponse /\ iEmit' = 1
                 ELSE pcEmit' = "do" /\ UNCHANGED iEmit
    /\ UNCHANGED <<resultEmit, emitFrame>>

\* Mutant of Do_ConvertError: the conversion function is not called.
Do_ConvertError_skipped ==
    /\ \/ pcEmit = "do"
       \/ pcEmit = EventResponse /\ EmitOver
    /\ resultEmit' = [resultEmit EXCEPT !.resp = dEmit.Response, !.body = dEmit.Body]
    /\ pcEmit' = IF dEmit.Error # NoError THEN EventError ELSE EventDone
    /\ iEmit' = 1
    /\ UNCHANGED <<dEmit, logEmit, emitFrame>>

\* Do(), from the return of do() to the call of Emit(EventError) or of
\* Emit(EventDone): resp, body, and the ConvertError block.
Do_ConvertError ==
    /\ \/ pcEmit = "do"
       \/ pcEmit = EventResponse /\ EmitOver
    /\ resultEmit' = [resultEmit EXCEPT !.resp = dEmit.Response, !.body = dEmit.Body]
    /\ IF dEmit.Error # NoError
       THEN /\ pcEmit' = EventError
            /\ IF dEmit.ConvertError
               THEN \E out \in ConvertOutcomes :
                      /\ logEmit' = Append(logEmit, [ev |-> "ConvertError", n |-> 0,
                                                     out |-> out, seen |-> dEmit.Error])
                      /\ dEmit' = IF out = "converted"
                                  THEN [dEmit EXCEPT !.Error = ConvertedError(@)]
                                  ELSE dEmit
               ELSE UNCHANGED <<dEmit, logEmit>>
       ELSE /\ pcEmit' = EventDone
            /\ UNCHANGED <<dEmit, logEmit>>
    /\ iEmit' = 1
    /\ UNCHANGED emitFrame

\* Do(), from the return of Emit(EventError): err = d.Error, and the call of
\* Emit(EventDone).
Do_Error ==
    /\ pcEmit = EventError
    /\ EmitOver
    /\ resultEmit' = [resultEmit EXCEPT !.err = dEmit.Error]
    /\ pcEmit' = EventDone
    /\ iEmit' = 1
    /\ UNCHANGED <<dEmit, logEmit, emitFrame>>

\* Do(), the return of Emit(EventDone) and of Do().
Do_Done ==
    /\ pcEmit = EventDone
    /\ EmitOver
    /\ pcEmit' = "returned"
    /\ UNCHANGED <<dEmit, iEmit, resultEmit, logEmit, emitFrame>>

NextEmit ==
    \/ \E name \in {EventRequest, EventResponse, EventError, EventDone} : On(name)
    \/ Set_ConvertError
    \/ Set_Timeout
    \/ Emit_Get
    \/ \E name \in {EventRequest, EventResponse, EventError, EventDone} : Emit(name)
    \/ do_Emit
    \/ Do_ConvertError
    \/ Do_Error
    \/ Do_Done

SpecEmit == Init /\ [][NextEmit]_vars

\* -------------------------------------------------------- OnDone revision

\* Listeners of one kind among the entries of a list.
OnCount(list, kind) == Cardinality({k \in 1..Len(list) : list[k].kind = kind})

\* The caller still configures the Dusk and has calls left.
OnCanConfigure ==
    /\ pcOn = "none"
    /\ OnCount(dOn.doneEvents, "done") + OnCount(dOn.errorEvents, "error")
         + dOn.timeout < MaxOnCalls

\* func (d *Dusk) OnDone(ln): append to d.doneEvents.
OnDone ==
    /\ OnCanConfigure
    /\ dOn' = [dOn EXCEPT !.doneEvents =
                 Append(@, OnListener("done", OnCount(@, "done") + 1))]
    /\ UNCHANGED <<pcOn, iOn, errOn, retOn, logOn, onDoneFrame>>

\* func (d *Dusk) OnError(ln): append to d.errorEvents.
OnError ==
    /\ OnCanConfigure
    /\ dOn' = [dOn EXCEPT !.errorEvents =
                 Append(@, OnListener("error", OnCount(@, "error") + 1))]
    /\ UNCHANGED <<pcOn, iOn, errOn, retOn, logOn, onDoneFrame>>

\* func (d *Dusk) Timeout(timeout) with a non-zero timeout.
OnDone_Timeout ==
    /\ OnCanConfigure
    /\ dOn.timeout = 0
    /\ dOn' = [dOn EXCEPT !.timeout = 1]
    /\ UNCHANGED <<pcOn, iOn, errOn, retOn, logOn, onDoneFrame>>

\* Do() up to the return of newReqest: when http.NewRequest succeeded and a
\* timeout is set, the context is derived and the closure calling cancel()
\* is registered with OnDone, after the caller's done listeners.
OnDone_newReqest ==
    /\ pcOn = "none"
    /\ \E outcome \in OnRenderOutcomes :
         IF outcome # "ok"
         THEN /\ errOn' = OnEngineErr(outcome)
              /\ pcOn' = "done"
              /\ UNCHANGED dOn
         ELSE /\ dOn' = IF dOn.timeout # 0
                        THEN [dOn EXCEPT !.ctx = Append(@, "WithTimeout"),
                                         !.doneEvents = Append(@, OnCancel)]
                        ELSE dOn
              /\ errOn' = OnNoErr
              /\ pcOn' = "do"
    /\ UNCHANGED <<iOn, retOn, logOn, onDoneFrame>>

\* Do(): err = d.do(), whatever the request and response phases gave.
OnDone_do ==
    /\ pcOn = "do"
    /\ \E outcome \in OnDoOutcomes :
         errOn' = IF outcome = "ok" THEN OnNoErr ELSE OnEngineErr("do")
    /\ pcOn' = "done"
    /\ UNCHANGED <<dOn, iOn, retOn, logOn, onDoneFrame>>

\* done() starts: EmitError(err) when err != nil, else EmitDone().
OnDone_done ==
    /\ pcOn = "done"
    /\ pcOn' = IF errOn # OnNoErr THEN "EmitError" ELSE "EmitDone"
    /\ iOn' = 1
    /\ retOn' = OnNoErr
    /\ UNCHANGED <<dOn, errOn, logOn, onDoneFrame>>

\* The running Emit* loop over list has ended: past the last entry, or a
\* listener returned an error.
OnLoopOver(list) == iOn > Len(list) \/ retOn # OnNoErr

\* func (d *Dusk) EmitError(currentErr): one iteration, first entry first.
OnDone_EmitError ==
    /\ pcOn = "EmitError"
    /\ ~OnLoopOver(dOn.errorEvents)
    /\ LET e == dOn.errorEvents[iOn]
       IN  \E out \in {"nil", "err"} :
             /\ logOn' = Append(logOn, [kind |-> e.kind, n |-> e.n, out |-> out])
             /\ retOn' = IF out = "err" THEN OnListenerErr(e) ELSE OnNoErr
    /\ iOn' = iOn + 1
    /\ UNCHANGED <<dOn, pcOn, errOn, onDoneFrame>>

\* done(), from the return of EmitError to the call of EmitDone.
OnDone_done_EmitDone ==
    /\ pcOn = "EmitError"
    /\ OnLoopOver(dOn.errorEvents)
    /\ errOn' = IF retOn # OnNoErr THEN retOn ELSE errOn
    /\ pcOn' = "EmitDone"
    /\ iOn' = 1
    /\ retOn' = OnNoErr
    /\ UNCHANGED <<dOn, logOn, onDoneFrame>>

\* func (d *Dusk) EmitDone(): one iteration, first entry first; the closure
\* of newReqest calls cancel() and returns nil.
OnDone_EmitDone ==
    /\ pcOn = "EmitDone"
    /\ ~OnLoopOver(dOn.doneEvents)
    /\ LET e == dOn.doneEvents[iOn]
       IN  IF e = OnCancel
           THEN /\ logOn' = Append(logOn, [kind |-> "cancel", n |-> 0, out |-> "nil"])
                /\ UNCHANGED retOn
           ELSE \E out \in {"nil", "err"} :
                  /\ logOn' = Append(logOn, [kind |-> e.kind, n |-> e.n, out |-> out])
                  /\ retOn' = IF out = "err" THEN OnListenerErr(e) ELSE OnNoErr
    /\ iOn' = iOn + 1
    /\ UNCHANGED <<dOn, pcOn, errOn, onDoneFrame>>

\* done(), from the return of EmitDone to the return of Do(): d.Err = err.
OnDone_Do_return ==
    /\ pcOn = "EmitDone"
    /\ OnLoopOver(dOn.doneEvents)
    /\ LET final == IF retOn # OnNoErr THEN retOn ELSE errOn
       IN  /\ errOn' = final
           /\ dOn' = [dOn EXCEPT !.Err = final]
    /\ pcOn' = "returned"
    /\ retOn' = OnNoErr
    /\ UNCHANGED <<iOn, logOn, onDoneFrame>>

NextOnDone ==
    \/ OnDone
    \/ OnError
    \/ OnDone_Timeout
    \/ OnDone_newReqest
    \/ OnDone_do
    \/ OnDone_done
    \/ OnDone_EmitError
    \/ OnDone_done_EmitDone
    \/ OnDone_EmitDone
    \/ OnDone_Do_return

SpecOnDone == Init /\ [][NextOnDone]_vars

\* ------------------------------------------------------------------ scopes

\* What a slice holds, and the capacity of its backing array.
Contents(h, s) == IF s.arr = 0 THEN <<>> ELSE SubSeq(h[s.arr].elems, 1, s.len)
Capacity(h, s) == IF s.arr = 0 THEN 0 ELSE h[s.arr].cap

\* The capacity append gives a new backing array of pointer-sized elements
\* (gc runtime: the needed length or twice the old capacity, rounded up to
\* an allocation size class).
GrowCap(old, needed) ==
    LET want == IF needed > 2 * old THEN needed ELSE 2 * old
    IN  IF want <= 4 THEN want ELSE 2 * ((want + 1) \div 2)

\* Go's append(s, xs...): in place when the backing array has room, whoever
\* else shares that array; otherwise into a new array. Gives the heap and
\* the slice afterwards.
append(h, s, xs) ==
    LET needed == s.len + Len(xs)
    IN  IF xs = <<>> THEN [heap |-> h, slice |-> s]
        ELSE IF needed <= Capacity(h, s)
        THEN LET old == h[s.arr].elems
                 elems == Contents(h, s) \o xs \o SubSeq(old, needed + 1, Len(old))
             IN  [heap |-> [h EXCEPT ![s.arr].elems = elems],
                  slice |-> [arr |-> s.arr, len |-> needed]]
        ELSE [heap |-> Append(h, [cap |-> GrowCap(Capacity(h, s), needed),
                                  elems |-> Contents(h, s) \o xs]),
              slice |-> [arr |-> Len(h) + 1, len |-> needed]]

\* d.addRequestEvent(from...), d.addResponseEvent(from...),
\* d.AddErrorListener(from...), d.AddDoneListener(from...): the entries of
\* from are appended to the Dusk's own slice.
addEvents(h, s, from) == append(h, s, Contents(h, from))

\* newDusk and Instance.init: the lists of from are added to the lists of
\* the Dusk, one after the other.
RECURSIVE AddAll(_, _, _, _)
AddAll(h, lists, from, kinds) ==
    IF kinds = <<>> THEN [heap |-> h, lists |-> lists]
    ELSE LET k == Head(kinds)
             r == addEvents(h, lists[k], from[k])
         IN  AddAll(r.heap, [lists EXCEPT ![k] = r.slice], from, Tail(kinds))

\* A call that creates or configures is still allowed.
ScopeCanConfigure == regs < MaxScopeCalls

\* Mutant of Scope_Add: the first Dusk, once it exists, gets the listener
\* too.
Scope_Add_live(kind) ==
    /\ ScopeCanConfigure
    /\ LET ln == <<Listener("global", 0, kind, regs + 1)>>
           r == append(heap, pkgLists[kind], ln)
           g == IF dusks[1].created
                THEN append(r.heap, dusks[1].lists[kind], ln)
                ELSE [heap |-> r.heap, slice |-> dusks[1].lists[kind]]
       IN  /\ heap' = g.heap
           /\ pkgLists' = [pkgLists EXCEPT ![kind] = r.slice]
           /\ dusks' = [dusks EXCEPT ![1].lists[kind] = g.slice]
    /\ regs' = regs + 1
    /\ UNCHANGED <<insLists, fired, scopeFrame>>

\* AddRequestListener, AddResponseListener, AddErrorListener,
\* AddDoneListener of the package.
Scope_Add(kind) ==
    /\ ScopeCanConfigure
    /\ LET r == append(heap, pkgLists[kind], <<Listener("global", 0, kind, regs + 1)>>)
       IN  /\ heap' = r.heap
           /\ pkgLists' = [pkgLists EXCEPT ![kind] = r.slice]
    /\ regs' = regs + 1
    /\ UNCHANGED <<insLists, dusks, fired, scopeFrame>>

\* ClearRequestListener, ClearResponseListener, ClearErrorListener.
Scope_Clear(kind) ==
    /\ ScopeCanConfigure
    /\ kind # "done"
    /\ pkgLists' = [pkgLists EXCEPT ![kind] = NilSlice]
    /\ regs' = regs + 1
    /\ UNCHANGED <<heap, insLists, dusks, fired, scopeFrame>>

\* The Add*Listener methods of the Instance.
Scope_Instance_Add(kind) ==
    /\ ScopeCanConfigure
    /\ LET r == append(heap, insLists[kind], <<Listener("instance", 0, kind, regs + 1)>>)
       IN  /\ heap' = r.heap
           /\ insLists' = [insLists EXCEPT ![kind] = r.slice]
    /\ regs' = regs + 1
    /\ UNCHANGED <<pkgLists, dusks, fired, scopeFrame>>

\* Get(url) of the package (newDusk) or of the Instance (newDusk, then
\* Instance.init): the next Dusk object is created.
Scope_Get(o, viaInstance) ==
    /\ ScopeCanConfigure
    /\ ~dusks[o].created
    /\ \A p \in 1..(o - 1) : dusks[p].created
    /\ LET g == AddAll(heap, NoDusk.lists, pkgLists, KindOrder)
           r == IF viaInstance THEN AddAll(g.heap, g.lists, insLists, KindOrder) ELSE g
       IN  /\ heap' = r.heap
           /\ dusks' = [dusks EXCEPT ![o] = [NoDusk EXCEPT !.created = TRUE,
                                                          !.lists = r.lists]]
    /\ regs' = regs + 1
    /\ UNCHANGED <<pkgLists, insLists, fired, scopeFrame>>

\* Mutant of Scope_Dusk_Add: the listener is added to the package's list as
\* well.
Scope_Dusk_Add_package(o, kind) ==
    /\ ScopeCanConfigure
    /\ dusks[o].created
    /\ LET ln == <<Listener("call", o, kind, regs + 1)>>
           r == append(heap, dusks[o].lists[kind], ln)
           g == append(r.heap, pkgLists[kind], ln)
       IN  /\ heap' = g.heap
           /\ dusks' = [dusks EXCEPT ![o].lists[kind] = r.slice]
           /\ pkgLists' = [pkgLists EXCEPT ![kind] = g.slice]
    /\ regs' = regs + 1
    /\ UNCHANGED <<insLists, fired, scopeFrame>>

\* The Add*Listener methods of a Dusk.
Scope_Dusk_Add(o, kind) ==
    /\ ScopeCanConfigure
    /\ dusks[o].created
    /\ LET r == append(heap, dusks[o].lists[kind], <<Listener("call", o, kind, regs + 1)>>)
       IN  /\ heap' = r.heap
           /\ dusks' = [dusks EXCEPT ![o].lists[kind] = r.slice]
    /\ regs' = regs + 1
    /\ UNCHANGED <<pkgLists, insLists, fired, scopeFrame>>

\* func (d *Dusk) Timeout(timeout) with a non-zero timeout.
Scope_Timeout(o) ==
    /\ ScopeCanConfigure
    /\ dusks[o].created
    /\ dusks[o].timeout = 0
    /\ dusks' = [dusks EXCEPT ![o].timeout = 1]
    /\ regs' = regs + 1
    /\ UNCHANGED <<heap, pkgLists, insLists, fired, scopeFrame>>

\* The calls one Emit* makes: the listeners of a list, forward or from the
\* last to the first, each returning nil.
RECURSIVE Reversed(_)
Reversed(seq) == IF seq = <<>> THEN <<>> ELSE Append(Reversed(Tail(seq)), Head(seq))

FiredBy(o, k, lns) == [j \in 1..Len(lns) |-> [obj |-> o, do |-> k, ln |-> lns[j]]]

\* Mutant of WithTimeout: every derived context starts out live.
WithTimeout_fresh(ctx) == Append(ctx, FALSE)

\* context.WithTimeout(parent, d.timeout): a context derived from a
\* cancelled parent is cancelled from the start. d.ctx is the chain of the
\* contexts derived so far, each with whether it has been cancelled.
WithTimeout(ctx) == Append(ctx, ctx # <<>> /\ ctx[Len(ctx)])
CtxDone(ctx) == ctx # <<>> /\ ctx[Len(ctx)]

\* cancel() of the context the k-th Do() derived: that context and the
\* ones derived from it are cancelled.
Cancelled(ctx, from) == [j \in 1..Len(ctx) |-> ctx[j] \/ j >= from]

\* The context after EmitDone called the cancel closures among lns.
RECURSIVE AfterCancels(_, _)
AfterCancels(ctx, lns) ==
    IF lns = <<>> THEN ctx
    ELSE AfterCancels(IF Head(lns).scope = "cancel"
                      THEN Cancelled(ctx, Head(lns).n) ELSE ctx,
                      Tail(lns))

\* Do() calls made so far on the first n Dusk objects.
RECURSIVE DosSoFar(_)
DosSoFar(n) == IF n = 0 THEN 0 ELSE dusks[n].dos + DosSoFar(n - 1)

\* Do() of a Dusk with listeners that all return nil and a transport that
\* answers: newRequest (with a timeout the context is derived from d.ctx
\* and the cancel closure added to the done listeners), the request
\* listeners, the transport, which fails at once under a cancelled context,
\* then done(): the done listeners, d.Err.
Scope_Do(o) ==
    /\ dusks[o].created
    /\ DosSoFar(MaxObjects) < MaxDos
    /\ \E render \in {"ok", "newRequest"} :
         LET dk == dusks[o]
             k == dk.dos + 1
             timed == render = "ok" /\ dk.timeout # 0
             ctx == IF timed THEN WithTimeout(dk.ctx) ELSE dk.ctx
             r == IF timed
                  THEN append(heap, dk.lists["done"], <<CancelListener(o, Len(ctx))>>)
                  ELSE [heap |-> heap, slice |-> dk.lists["done"]]
             lists == [dk.lists EXCEPT !["done"] = r.slice]
             wire == IF CtxDone(ctx) THEN "canceled" ELSE "ok"
             e == IF render # "ok" THEN render
                  ELSE IF wire # "ok" THEN "send" ELSE "nil"
             send == <<[obj |-> o, do |-> k,
                        ln |-> Listener("transport", o, wire, Len(ctx))]>>
             dones == Reversed(Contents(r.heap, lists["done"]))
             calls ==
                 (IF render = "ok"
                  THEN FiredBy(o, k, Reversed(Contents(r.heap, lists["request"]))) \o send
                  ELSE <<>>)
                 \o FiredBy(o, k, dones)
         IN  /\ heap' = r.heap
             /\ dusks' = [dusks EXCEPT ![o] = [dk EXCEPT !.lists = lists,
                                                         !.ctx = AfterCancels(ctx, dones),
                                                         !.dos = k,
                                                         !.Err = e]]
             /\ fired' = fired \o calls
    /\ UNCHANGED <<pkgLists, insLists, regs, scopeFrame>>

NextScopes ==
    \/ \E kind \in ListKinds : Scope_Add(kind)
    \/ \E kind \in ListKinds : Scope_Clear(kind)
    \/ \E kind \in ListKinds : Scope_Instance_Add(kind)
    \/ \E o \in 1..MaxObjects, viaInstance \in BOOLEAN : Scope_Get(o, viaInstance)
    \/ \E o \in 1..MaxObjects, kind \in ListKinds : Scope_Dusk_Add(o, kind)
    \/ \E o \in 1..MaxObjects : Scope_Timeout(o)
    \/ \E o \in 1..MaxObjects : Scope_Do(o)

SpecScopes == Init /\ [][NextScopes]_vars

\* ---------------------------------------------------------------- registry

\* Mutant of ClearRequestListener: every package list is emptied.
ClearRequestListener_all ==
    /\ globalRequestEvents' = <<>>
    /\ globalResponseEvents' = <<>>
    /\ globalErrorListeners' = <<>>
    /\ doneListeners' = <<>>
    /\ UNCHANGED <<ins, d, pc, locals, outside>>

\* func ClearRequestListener(): globalRequestEvents = nil
ClearRequestListener ==
    /\ globalRequestEvents' = <<>>
    /\ UNCHANGED <<globalResponseEvents, globalErrorListeners, doneListeners,
                   ins, d, pc, locals, outside>>

\* func ClearResponseListener(): globalResponseEvents = nil
ClearResponseListener ==
    /\ globalResponseEvents' = <<>>
    /\ UNCHANGED <<globalRequestEvents, globalErrorListeners, doneListeners,
                   ins, d, pc, locals, outside>>

\* func ClearErrorListener(): globalErrorListeners = nil
ClearErrorListener ==
    /\ globalErrorListeners' = <<>>
    /\ UNCHANGED <<globalRequestEvents, globalResponseEvents, doneListeners,
                   ins, d, pc, locals, outside>>

\* The registry on its own: registrations at the three scopes, the creation
\* of a Dusk through the Instance, and the Clear functions, which a caller
\* may use before and after the Dusk exists.
NextRegistry ==
    \/ \E t \in {EventTypeBefore, EventTypeAfter} : AddRequestListener(t)
    \/ \E t \in {EventTypeBefore, EventTypeAfter} : AddResponseListener(t)
    \/ AddErrorListener
    \/ AddDoneListener
    \/ \E t \in {EventTypeBefore, EventTypeAfter} : Instance_AddRequestListener(t)
    \/ \E t \in {EventTypeBefore, EventTypeAfter} : Instance_AddResponseListener(t)
    \/ Instance_AddErrorListener
    \/ Instance_AddDoneListener
    \/ Instance_Get
    \/ \E t \in {EventTypeBefore, EventTypeAfter} : Dusk_AddRequestListener(t)
    \/ \E t \in {EventTypeBefore, EventTypeAfter} : Dusk_AddResponseListener(t)
    \/ Dusk_AddErrorListener
    \/ Dusk_AddDoneListener
    \/ ClearRequestListener
    \/ ClearResponseListener
    \/ ClearErrorListener

SpecRegistry == Init /\ [][NextRegistry]_vars

\* ------------------------------------------------ reading the log of a call

Positions == 1..Len(log)

IsListener(k, ev, t) == log[k].ev = ev /\ log[k].t = t

\* The error value a listener call recorded in the log returned.
ErrOfEvent(x) == [src |-> x.ev, t |-> x.t, scope |-> x.scope, n |-> x.n]

\* How often the listener entry e of kind ev was called.
Calls(ev, e) ==
    Cardinality({k \in Positions : /\ log[k].ev = ev
                                   /\ log[k].t = e.t
                                   /\ log[k].scope = e.scope
                                   /\ log[k].n = e.n})

AllCalledOnce(ev, list) ==
    \A k \in 1..Len(list) : list[k] # CancelEntry => Calls(ev, list[k]) = 1

ScopeRank(scope) ==
    CASE scope = "call" -> 1
      [] scope = "instance" -> 2
      [] scope = "global" -> 3
      [] OTHER -> 0

PhaseRank(x) ==
    CASE x.ev = "newRequest" -> 0
      [] x.ev = "request" /\ x.t = EventTypeBefore -> 1
      [] x.ev = "send" -> 2
      [] x.ev = "request" /\ x.t = EventTypeAfter -> 3
      [] x.ev = "response" /\ x.t = EventTypeBefore -> 4
      [] x.ev = "read" -> 5
      [] x.ev = "response" /\ x.t = EventTypeAfter -> 6
      [] x.ev = "error" -> 7
      [] OTHER -> 8

Returned == pc = "returned"

\* Rendering, a request or response listener, the transport or the body
\* read failed at position k.
Failure(k) ==
    /\ log[k].ev \in {"newRequest", "request", "response", "send", "read"}
    /\ log[k].out \in {"marshal", "newRequest", "err", "fail"}

\* The error that failure raised.
FailureErr(k) ==
    IF log[k].ev = "newRequest" THEN EngineErr(log[k].out)
    ELSE IF log[k].ev \in {"send", "read"} THEN EngineErr(log[k].ev)
    ELSE ErrOfEvent(log[k])

\* Error and done listeners that returned an error of their own.
Substitutes == {k \in Positions : log[k].ev \in {"error", "done"} /\ log[k].out = "err"}

Last(S) == CHOOSE k \in S : \A j \in S : j <= k

\* The error Do() hands back for the terminal error e0: e0, unless an error
\* or done listener returned another one (the last such one stands).
Handed(e0) == IF Substitutes = {} THEN e0 ELSE ErrOfEvent(log[Last(Substitutes)])

RenderFailed == Len(log) > 0 /\ log[1].out \in {"marshal", "newRequest"}
RenderedOk == Len(log) > 0 /\ log[1].out = "ok"

\* ------------------------------------------------------------------ claims

\* C1: listeners of the same event and phase (request Before, request After,
\* response Before, response After, done) fire call scope first, then
\* instance scope, then global scope.
C1_ScopeOrder ==
    \A a, b \in Positions :
        (/\ a < b
         /\ log[a].ev \in {"request", "response", "done"}
         /\ log[a].ev = log[b].ev
         /\ log[a].t = log[b].t)
        => ScopeRank(log[a].scope) <= ScopeRank(log[b].scope)

\* C1 witness: Do() returned after a call, an instance and a global listener
\* of one event and phase fired, in that order.
C1_Witness ==
    /\ Returned
    /\ \E a, b, c \in Positions :
         /\ a < b /\ b < c
         /\ log[a].ev \in {"request", "response", "done"}
         /\ log[a].ev = log[b].ev /\ log[b].ev = log[c].ev
         /\ log[a].t = log[b].t /\ log[b].t = log[c].t
         /\ log[a].scope = "call"
         /\ log[b].scope = "instance"
         /\ log[c].scope = "global"

\* C2: the steps of a Do() occur in the order request Before listeners,
\* transport send, request After listeners, response Before listeners, body
\* read, response After listeners, done listeners: no step of an earlier
\* phase follows a step of a later one, the send and the read happen at most
\* once, and on a Do() that succeeds and reads the body every registered
\* listener of each phase has fired exactly once.
C2_PhaseOrder ==
    /\ \A a, b \in Positions : a < b => PhaseRank(log[a]) <= PhaseRank(log[b])
    /\ Cardinality({k \in Positions : log[k].ev = "send"}) <= 1
    /\ Cardinality({k \in Positions : log[k].ev = "read"}) <= 1
    /\ (Returned /\ ~Failed(result.err)) =>
          /\ \E k \in Positions : log[k].ev = "send" /\ log[k].out = "ok"
          /\ AllCalledOnce("request", d.requestEvents)
          /\ AllCalledOnce("done", d.doneListeners)
          /\ \A k \in 1..Len(d.responseEvents) :
                d.responseEvents[k].t = EventTypeBefore
                => Calls("response", d.responseEvents[k]) = 1
          /\ (\E k \in Positions : log[k].ev = "read")
                => AllCalledOnce("response", d.responseEvents)

\* C2 witness: a Do() that succeeded with listeners of three different
\* phases, a send and a body read in its log.
C2_Witness ==
    /\ Returned
    /\ ~Failed(result.err)
    /\ \E k \in Positions : log[k].ev = "read"
    /\ Cardinality({PhaseRank(log[k]) : k \in Positions}) >= 6

\* C3: every registered done listener is invoked exactly once per Do(),
\* whatever the outcome of the call and whatever the other done listeners
\* return.
C3_DoneExactlyOnce ==
    Returned => AllCalledOnce("done", d.doneListeners)

\* C4: a request Before listener that returns an error prevents the
\* transport send, and Do() returns exactly that error unless an error or
\* done listener substitutes another one.
C4_RequestErrorAborts ==
    \A k \in Positions :
        (IsListener(k, "request", EventTypeBefore) /\ log[k].out = "err")
        => /\ sent = <<>>
           /\ \A j \in Positions : log[j].ev # "send"
           /\ Returned => result.err = Handed(ErrOfEvent(log[k]))

\* C4 witness: Do() returned the error of a request Before listener.
C4_Witness ==
    /\ Returned
    /\ \E k \in Positions :
         /\ IsListener(k, "request", EventTypeBefore)
         /\ log[k].out = "err"
         /\ result.err = ErrOfEvent(log[k])

\* C5: with a non-zero timeout and a request that rendered, cancel() of the
\* derived context is called exactly once before Do() returns, on every
\* path; it is never called twice, and never without a timeout.
C5_CancelOnce ==
    LET cancels == Cardinality({k \in Positions : log[k].ev = "cancel"})
    IN  /\ cancels <= 1
        /\ (d.timeout = 0 \/ ~RenderedOk) => cancels = 0
        /\ (Returned /\ d.timeout # 0 /\ RenderedOk) => cancels = 1

\* C5 witness: Do() with a timeout returned after a done listener returned
\* an error, and cancel() was called.
C5_Witness ==
    /\ Returned
    /\ d.timeout # 0
    /\ \E k \in Positions : log[k].ev = "done" /\ log[k].out = "err"
    /\ \E k \in Positions : log[k].ev = "cancel"

\* C6: after a failure of rendering, of a request or response listener, of
\* the transport or of the body read, Do() returns a non-nil error; with
\* error and done listeners that all return nil it is the error of that
\* failure.
C6_ErrorStays ==
    Returned =>
        \A k \in Positions :
            Failure(k) => /\ Failed(result.err)
                          /\ result.err = Handed(FailureErr(k))

\* C6 witness: Do() returned the error of a failure although an error
\* listener and a done listener ran and returned nil.
C6_Witness ==
    /\ Returned
    /\ \E k \in Positions : Failure(k) /\ result.err = FailureErr(k)
    /\ \E k \in Positions : log[k].ev = "error" /\ log[k].out = "nil"
    /\ \E k \in Positions : log[k].ev = "done" /\ log[k].out = "nil"

\* C7: the error a done listener returns is the error Do() returns, in
\* place of an earlier terminal error and in place of nil.
C7_DoneErrorWins ==
    Returned =>
        \A k \in Positions :
            (log[k].ev = "done" /\ log[k].out = "err")
            => /\ result.err = ErrOfEvent(log[k])
               /\ d.Err = ErrOfEvent(log[k])

\* C7 witness: the transport failed, a done listener returned an error and
\* Do() returned the done listener's error.
C7_Witness ==
    /\ Returned
    /\ \E k \in Positions : log[k].ev = "send" /\ log[k].out = "fail"
    /\ \E k \in Positions :
         /\ log[k].ev = "done" /\ log[k].out = "err"
         /\ result.err = ErrOfEvent(log[k])

\* C8: when rendering fails no request or response listener fires and
\* nothing is sent or read; the error listeners run, then the done
\* listeners (all of them while none returns an error), and Do() returns the
\* build error, which only an error or done listener's own error replaces.
C8_BuildFailure ==
    RenderFailed =>
        /\ sent = <<>>
        /\ \A k \in Positions : log[k].ev \notin {"request", "response", "send", "read", "cancel"}
        /\ \A a, b \in Positions :
              (log[a].ev = "done" /\ log[b].ev = "error") => a > b
        /\ Returned =>
              /\ d.errorListeners # <<>> => Calls("error", d.errorListeners[1]) = 1
              /\ d.doneListeners # <<>> =>
                    Calls("done", d.doneListeners[Len(d.doneListeners)]) = 1
              /\ result = [resp |-> "nil", body |-> NoBody,
                           err |-> Handed(EngineErr(log[1].out))]
              /\ Substitutes = {} =>
                    /\ AllCalledOnce("error", d.errorListeners)
                    /\ AllCalledOnce("done", d.doneListeners)
                    /\ result.err = EngineErr(log[1].out)

\* C8 witness: rendering failed, an error listener and then a done listener
\* fired, and Do() returned the build error.
C8_Witness ==
    /\ Returned
    /\ RenderFailed
    /\ result.err = EngineErr(log[1].out)
    /\ \E a, b \in Positions : a < b /\ log[a].ev = "error" /\ log[b].ev = "done"
    /\ \E k \in 1..Len(d.requestEvents) : d.requestEvents[k].t = EventTypeBefore

\* C9: once a response Before listener has stored a body in d.Body the body
\* stream is never read; when the response Before listeners return no error
\* Do() returns the stored body (of the listener that stored last) and the
\* response the transport returned, with a nil error unless a done listener
\* returns one.
C9_StoredBody ==
    LET stored == {k \in Positions :
                     IsListener(k, "response", EventTypeBefore) /\ log[k].out = "setBody"}
        failed == {k \in Positions :
                     IsListener(k, "response", EventTypeBefore) /\ log[k].out = "err"}
    IN  stored # {} =>
          /\ \A k \in Positions : log[k].ev # "read"
          /\ (Returned /\ failed = {}) =>
                result = [resp |-> "received",
                          body |-> [src |-> "listener",
                                    scope |-> log[Last(stored)].scope,
                                    n |-> log[Last(stored)].n],
                          err |-> Handed(NoErr)]

\* C9 witness: Do() returned the body a response Before listener stored,
\* the received response and a nil error.
C9_Witness ==
    /\ Returned
    /\ \E k \in Positions :
         /\ IsListener(k, "response", EventTypeBefore)
         /\ log[k].out = "setBody"
         /\ result = [resp |-> "received",
                      body |-> [src |-> "listener", scope |-> log[k].scope, n |-> log[k].n],
                      err |-> NoErr]

\* C10: the request a request Before listener assigns to d.Request is the
\* request handed to the transport and is still d.Request after Do()
\* returns, with tracing enabled or not.
C10_ReplacementUsed ==
    (\E k \in Positions :
        IsListener(k, "request", EventTypeBefore) /\ log[k].out = "setRequest")
    => /\ \A j \in 1..Len(sent) : sent[j].id = "replacement"
       /\ Returned => d.Request.id = "replacement"

\* C11: when a response After listener returns an error, Do() returns that
\* error (unless an error or done listener substitutes another one) together
\* with the response the transport returned.
C11_ResponseWithError ==
    Returned =>
        \A k \in Positions :
            (IsListener(k, "response", EventTypeAfter) /\ log[k].out = "err")
            => /\ result.err = Handed(ErrOfEvent(log[k]))
               /\ result.resp = "received"

\* C12 as stated: error listeners fire call scope first, then instance
\* scope, then global scope.
C12_ErrorScopeOrder_CallFirst ==
    \A a, b \in Positions :
        (a < b /\ log[a].ev = "error" /\ log[b].ev = "error")
        => ScopeRank(log[a].scope) <= ScopeRank(log[b].scope)

\* C12 amended: error listeners fire global scope first, then instance
\* scope, then call scope, the reverse of the scope order of request,
\* response and done listeners.
C12_ErrorScopeOrder ==
    \A a, b \in Positions :
        (a < b /\ log[a].ev = "error" /\ log[b].ev = "error")
        => ScopeRank(log[a].scope) >= ScopeRank(log[b].scope)

\* C12 witness: Do() returned after a global, an instance and a call error
\* listener fired, in that order.
C12_Witness ==
    /\ Returned
    /\ \E a, b, c \in Positions :
         /\ a < b /\ b < c
         /\ log[a].ev = "error" /\ log[b].ev = "error" /\ log[c].ev = "error"
         /\ log[a].scope = "global"
         /\ log[b].scope = "instance"
         /\ log[c].scope = "call"

\* C13: when a call-scope error listener runs, every global error listener
\* has already been invoked (and returned nil); the error the call-scope
\* listener returns is the error Do() returns, unless a done listener
\* returns one.
C13_GlobalBeforeCall ==
    \A b \in Positions :
        (log[b].ev = "error" /\ log[b].scope = "call")
        => /\ \A g \in 1..Len(globalErrorListeners) :
                \E a \in 1..(b - 1) :
                    /\ log[a].ev = "error"
                    /\ log[a].scope = "global"
                    /\ log[a].n = globalErrorListeners[g].n
                    /\ log[a].out = "nil"
           /\ (Returned /\ log[b].out = "err")
                 => result.err = Handed(ErrOfEvent(log[b]))

\* C13 witness: a global error listener returned nil, then a call-scope
\* error listener returned an error, and Do() returned that error.
C13_Witness ==
    /\ Returned
    /\ \E a, b \in Positions :
         /\ a < b
         /\ log[a].ev = "error" /\ log[a].scope = "global" /\ log[a].out = "nil"
         /\ log[b].ev = "error" /\ log[b].scope = "call" /\ log[b].out = "err"
         /\ result.err = ErrOfEvent(log[b])

\* C14: within one scope, listeners of the same event and phase (request,
\* response, done) fire in the order in which they were registered.
C14_RegistrationOrder ==
    \A a, b \in Positions :
        (/\ a < b
         /\ log[a].ev \in {"request", "response", "done"}
         /\ log[a].ev = log[b].ev
         /\ log[a].t = log[b].t
         /\ log[a].scope = log[b].scope)
        => log[a].n < log[b].n

\* C15: a request or response listener that returns nil but stores an error
\* in d.Err aborts the pipeline when its phase is over (after a request
\* Before listener did so nothing is sent), and Do() returns the stored
\* error.
C15_WrittenErrAborts ==
    \A k \in Positions :
        (log[k].ev \in {"request", "response"} /\ log[k].out = "setErr")
        => /\ \A j \in Positions :
                j > k => (\/ log[j].ev \in {"error", "done", "cancel"}
                          \/ (log[j].ev = log[k].ev /\ log[j].t = log[k].t))
           /\ IsListener(k, "request", EventTypeBefore) => sent = <<>>
           /\ Returned =>
                 result.err = Handed([src |-> "written", t |-> log[k].t,
                                      scope |-> log[k].scope, n |-> log[k].n])

\* C16: a Do() hands at most one request to the transport; it has handed
\* exactly one when it returns after rendering and the request Before
\* listeners raised no error, and none otherwise.
C16_OneSend ==
    LET beforeFailed == \E k \in Positions :
                           IsListener(k, "request", EventTypeBefore) /\ log[k].out = "err"
    IN  /\ Len(sent) <= 1
        /\ Len(sent) = Cardinality({k \in Positions : log[k].ev = "send"})
        /\ Returned =>
              Len(sent) = IF RenderedOk /\ ~beforeFailed THEN 1 ELSE 0

\* C16 witness: the transport failed after one send, error and done
\* listeners ran, and Do() returned with that one send.
C16_Witness ==
    /\ Returned
    /\ Len(sent) = 1
    /\ \E k \in Positions : log[k].ev = "send" /\ log[k].out = "fail"
    /\ \E k \in Positions : log[k].ev = "error"
    /\ \E k \in Positions : log[k].ev = "done"

\* The decoder for `encoding` was enabled on the request.
DecoderEnabled(encoding) ==
    \E k \in 1..Len(dDec.responseEvents) :
        dDec.responseEvents[k].ln =
            (IF encoding = SnappyEncoding THEN "SnappyDecode" ELSE "BrDecode")

\* C17: when the reply carries Content-Encoding snappy or br and the decoder
\* for it was enabled with Snappy() or Br(), Do() returns the decoded plain
\* text as body, without error, and a response that has neither a
\* Content-Encoding nor a Content-Length header; a body that is not valid
\* data of that encoding makes Do() return the decoder's error instead.
C17_DecodedBody ==
    (/\ pcDec = "returned"
     /\ reply.contentEncoding \in {SnappyEncoding, BrEncoding}
     /\ DecoderEnabled(reply.contentEncoding))
    => IF reply.payload.format = reply.contentEncoding
       THEN /\ resultDec.err = ""
            /\ resultDec.body = Bytes("plain", reply.payload.text)
            /\ resultDec.resp.status = "received"
            /\ resultDec.resp.contentEncoding = ""
            /\ ~resultDec.resp.contentLength
       ELSE /\ resultDec.err # ""
            /\ resultDec.body = NoBytes

\* C17 witness: with both decoders enabled, a snappy reply that had a
\* Content-Length header came back decoded.
C17_Witness ==
    /\ pcDec = "returned"
    /\ DecoderEnabled(SnappyEncoding) /\ DecoderEnabled(BrEncoding)
    /\ reply.contentEncoding = SnappyEncoding
    /\ reply.contentLength
    /\ resultDec.body = Bytes("plain", reply.payload.text)
    /\ resultDec.err = ""

\* Goroutine g is in the middle of its accesses to the package list `list`:
\* it has read the list and has a write or a second read still to do.
InsideList(g, list) == gor[g].list = list /\ gor[g].pc \in {"write", "copy"}

\* C18: concurrent global registration loses no registration (the listener
\* of every Add*Listener call that has returned is in its package list), and
\* no goroutine is in the middle of writing a package list while another
\* goroutine is in the middle of reading or writing the same list.
C18_RegistrySafe ==
    /\ \A g \in Goroutines :
          (gor[g].pc = "done" /\ gor[g].op # "newDusk")
          => \E k \in 1..Len(GlobalList(gor[g].list)) :
                GlobalList(gor[g].list)[k] = Entry("global", g, gor[g].t)
    /\ \A g, h \in Goroutines :
          (g # h /\ gor[g].pc = "write")
          => ~InsideList(h, gor[g].list)

\* Goroutine g stands at a statement that assigns a field of the HTTPTrace.
AtWrite(g) ==
    \/ th[g].pc \in {"callback", "Finish"}
    \/ (th[g].pc = "Stats" /\ ht.Done = 0)

\* Goroutine g is inside a callback, Finish() or Stats(), between taking and
\* releasing the lock.
InsideTrace(g) == th[g].pc # "idle"

\* C19: a goroutine that is about to assign a field of the HTTPTrace holds
\* the lock exclusively, and no other goroutine is inside a callback,
\* Finish() or Stats() at that moment.
C19_ExclusiveWrites ==
    \A g \in Threads :
        AtWrite(g) => /\ mu.writer = g
                      /\ \A h \in Threads \ {g} : ~InsideTrace(h)

\* The time stamps a duration of the stats is taken between.
StartOf(duration) ==
    CASE duration = "DNSLookup" -> "DNSStart"
      [] duration = "TCPConnection" -> "ConnectStart"
      [] duration = "TLSHandshake" -> "TLSHandshakeStart"
      [] duration = "ServerProcessing" -> "GotConnect"
      [] duration = "ContentTransfer" -> "GotFirstResponseByte"
      [] OTHER -> "Start"
EndOf(duration) ==
    CASE duration = "DNSLookup" -> "DNSDone"
      [] duration = "TCPConnection" -> "ConnectDone"
      [] duration = "TLSHandshake" -> "TLSHandshakeDone"
      [] duration = "ServerProcessing" -> "GotFirstResponseByte"
      [] OTHER -> "Done"

\* C20: in every value Stats() has returned, a duration is non-zero only if
\* its start and its end time stamp were recorded, and no duration is
\* negative.
C20_Durations ==
    \A g \in Callers :
        th[g].returned =>
            \A duration \in DOMAIN ZeroStats :
                /\ th[g].stats[duration] >= 0
                /\ th[g].stats[duration] # 0 =>
                      (ht[StartOf(duration)] # 0 /\ ht[EndOf(duration)] # 0)

\* do() has returned: Do() is at done() or beyond it.
AfterDo == pc \in {"done", "EmitError", "EmitDone", "returned"}

C22_DoneWrittenOnce ==
    [][ht.Done # 0 => ht.Done' = ht.Done]_vars

\* The renderings made since the last builder call that returned no error.
Rendered == {k \in 1..Len(renders) : renders[k].err = ""}

\* C23: rendering the same descriptor twice with no builder call in between
\* gives the same URL (GetURL, newRequest) and the same header set
\* (newRequest), whatever the order in which the parameter map is iterated.
C23_RenderTwice ==
    \A a, b \in Rendered :
        /\ renders[a].url = renders[b].url
        /\ (renders[a].call = "newRequest" /\ renders[b].call = "newRequest")
             => renders[a].header = renders[b].header

\* C24: when a payload is present, newRequest leaves a content type the
\* caller has set as it is; when none is set it chooses
\* application/x-www-form-urlencoded for url.Values and application/json for
\* any other payload that is not a stream.
C24_ContentType ==
    \A k \in Rendered :
        LET r == renders[k]
            set == Header_Get(r.before.header, HeaderContentType)
            sent1 == Header_Get(r.header, HeaderContentType)
        IN  (r.call = "newRequest" /\ r.before.data # "nil")
            => /\ set # "" => sent1 = set
               /\ (set = "" /\ r.before.data = "url.Values")
                    => sent1 = MIMEApplicationFormUrlencoded
               /\ (set = "" /\ r.before.data = "map")
                    => sent1 = MIMEApplicationJSON

\* A `:name` token of a URL template: the colon and the characters up to
\* the next delimiter.
NameLength(s) ==
    IF \E k \in 1..Len(s) : s[k] \in {"/", "?", ":", "&", "="}
    THEN (CHOOSE k \in 1..Len(s) :
             /\ s[k] \in {"/", "?", ":", "&", "="}
             /\ \A j \in 1..(k - 1) : s[j] \notin {"/", "?", ":", "&", "="}) - 1
    ELSE Len(s)

\* The template with every token of a registered name replaced by its value
\* and every other token left as it is.
RECURSIVE TokenWise(_, _)
TokenWise(s, params) ==
    IF s = <<>> THEN <<>>
    ELSE IF Head(s) = ":"
    THEN LET n == NameLength(Tail(s))
             name == SubSeq(s, 2, n + 1)
         IN  (IF name \in DOMAIN params THEN params[name] ELSE <<":">> \o name)
             \o TokenWise(SubSeq(s, n + 2, Len(s)), params)
    ELSE <<Head(s)>> \o TokenWise(Tail(s), params)

\* C25: GetURL replaces every `:name` token whose name was given to Param()
\* by its value and leaves every other `:token` as literal text, also a
\* token whose name only starts with a registered name.
C25_Tokens ==
    \A k \in Rendered :
        LET r == renders[k]
        IN  (r.call = "GetURL" /\ DOMAIN r.before.query = {})
            => r.url = TokenWise(r.before.url, r.before.params)

\* C26: a step that empties the package list of request listeners, of
\* response listeners or of error listeners (ClearRequestListener,
\* ClearResponseListener, ClearErrorListener) leaves the package lists of
\* the other kinds, the lists of the Instance and the lists of the existing
\* Dusk as they are.
C26_ClearFrame ==
    [][/\ (globalRequestEvents # <<>> /\ globalRequestEvents' = <<>>)
          => UNCHANGED <<globalResponseEvents, globalErrorListeners,
                         doneListeners, ins, d>>
       /\ (globalResponseEvents # <<>> /\ globalResponseEvents' = <<>>)
          => UNCHANGED <<globalRequestEvents, globalErrorListeners,
                         doneListeners, ins, d>>
       /\ (globalErrorListeners # <<>> /\ globalErrorListeners' = <<>>)
          => UNCHANGED <<globalRequestEvents, globalResponseEvents,
                         doneListeners, ins, d>>]_vars

\* C26 witness: the package list of request listeners has been emptied
\* after a Dusk took its entries, while another package list, an Instance
\* list and the lists of the Dusk still hold theirs.
C26_Witness ==
    /\ globalRequestEvents = <<>>
    /\ CountScope(d.requestEvents, "global") > 0
    /\ globalErrorListeners # <<>>
    /\ d.errorListeners = globalErrorListeners
    /\ ins.doneListeners # <<>>

\* Reading the log of a call of the On/Emit revision.
PositionsEmit == 1..Len(logEmit)
Converts == {k \in PositionsEmit : logEmit[k].ev = "ConvertError"}
CallsOf(name) == {k \in PositionsEmit : logEmit[k].ev = name}

\* The value of d.Error once the step at position k is over.
ErrorAfter(k) ==
    LET x == logEmit[k]
    IN  IF x.out = "setError" THEN StoredError(EmitEvent(x.ev, x.n))
        ELSE IF x.ev = "ConvertError" /\ x.out = "converted" THEN ConvertedError(x.seen)
        ELSE IF x.ev = "send" /\ x.out # "ok" THEN DoError(x.out)
        ELSE x.seen

\* do() ended with an error in d.Error.
HadTerminalError ==
    \E k \in PositionsEmit :
        \/ logEmit[k].ev \in {EventRequest, EventResponse} /\ logEmit[k].out = "setError"
        \/ logEmit[k].ev = "send" /\ logEmit[k].out # "ok"

\* C27 (as stated): with ConvertError set, when Do() ends with a terminal
\* error the conversion function is called exactly once and before every
\* error listener, every error listener sees the converted error in the
\* Dusk, and Do() returns the converted error; on success the function is
\* not called.
C27_ConvertedReturned ==
    (pcEmit = "returned" /\ dEmit.ConvertError)
    => IF HadTerminalError
       THEN /\ Cardinality(Converts) = 1
            /\ \A c \in Converts :
                 /\ \A k \in CallsOf(EventError) :
                      c < k /\ logEmit[k].seen = ErrorAfter(c)
                 /\ resultEmit.err = ErrorAfter(c)
       ELSE Converts = {}

\* C27 (amended): with ConvertError set, when Do() ends with a terminal
\* error the conversion function is called exactly once and before every
\* error listener; the first error listener sees the converted error and
\* each later one sees the error as the error listener before it left it;
\* Do() returns the error as the last error listener left it (the converted
\* error when no error listener stored another). On success the function is
\* not called.
C27_ConvertedFirst ==
    (pcEmit = "returned" /\ dEmit.ConvertError)
    => IF HadTerminalError
       THEN /\ Cardinality(Converts) = 1
            /\ \A c \in Converts :
                 /\ \A k \in CallsOf(EventError) :
                      /\ c < k
                      /\ \A j \in c..(k - 1) : j = c \/ j \in CallsOf(EventError)
                      /\ logEmit[k].seen = ErrorAfter(k - 1)
                 /\ resultEmit.err = ErrorAfter(c + Cardinality(CallsOf(EventError)))
       ELSE Converts = {}

\* C27 witness: a call that failed, whose error was converted and then
\* replaced by an error listener, with another error listener after it.
C27_Witness ==
    /\ pcEmit = "returned"
    /\ \E c \in Converts, j, k \in CallsOf(EventError) :
         /\ logEmit[c].out = "converted"
         /\ j < k
         /\ logEmit[j].out = "setError"

\* The request listeners that stored an error in d.Error.
RequestStores ==
    {k \in CallsOf(EventRequest) : logEmit[k].out = "setError"}

\* Every listener registered for the name was called once.
EachCalledOnce(name) ==
    \A e \in 1..Len(dEmit.events) :
        dEmit.events[e].Name = name
        => Cardinality({k \in CallsOf(name) : logEmit[k].n = dEmit.events[e].n}) = 1

\* What C28 says besides the returned error: no transport send, every error
\* listener fired, and every done listener fired after them.
NoSendThenErrorThenDone ==
    /\ CallsOf("send") = {}
    /\ EachCalledOnce(EventError)
    /\ EachCalledOnce(EventDone)
    /\ \A a \in CallsOf(EventError), b \in CallsOf(EventDone) : a < b

\* C28 (as stated): when a request listener stored an error in d.Error,
\* nothing is sent, Do() returns exactly that error (the one stored last),
\* the error listeners fire and the done listeners fire after them.
C28_StoredErrorReturned ==
    (pcEmit = "returned" /\ RequestStores # {})
    => /\ NoSendThenErrorThenDone
       /\ resultEmit.err = ErrorAfter(Last(RequestStores))

\* C28 (amended): when a request listener stored an error in d.Error,
\* nothing is sent, the error listeners fire and the done listeners fire
\* after them; Do() returns that error as ConvertError and the error
\* listeners left it, which is exactly that error when ConvertError did not
\* convert it and no error listener stored another one.
C28_StoredErrorAborts ==
    (pcEmit = "returned" /\ RequestStores # {})
    => /\ NoSendThenErrorThenDone
       /\ resultEmit.err =
            ErrorAfter(Last(RequestStores \cup Converts \cup CallsOf(EventError)))
       /\ (/\ \A c \in Converts : logEmit[c].out = "nil"
           /\ \A k \in CallsOf(EventError) : logEmit[k].out = "nil")
          => resultEmit.err = ErrorAfter(Last(RequestStores))

\* C28 witness: a request listener stored an error, no conversion is set,
\* and an error listener and a done listener have run.
C28_Witness ==
    /\ pcEmit = "returned"
    /\ RequestStores # {}
    /\ ~dEmit.ConvertError
    /\ resultEmit.err = ErrorAfter(Last(RequestStores))
    /\ CallsOf(EventError) # {}
    /\ CallsOf(EventDone) # {}

\* Request and response listener calls that returned an error.
PhaseErrors == {k \in Positions : /\ log[k].ev \in {"request", "response"}
                                  /\ log[k].out = "err"}

\* C29: once a request or response listener has returned an error, no
\* later listener of the same phase and no listener of a later request or
\* response phase fires in that Do(), at any scope, and nothing is sent or
\* read; only error listeners and done listeners (the timeout's cancel among
\* them) run afterwards.
C29_ErrorAbortsPhases ==
    \A k \in PhaseErrors :
        \A j \in Positions :
            j > k => log[j].ev \in {"error", "done", "cancel"}

\* C29 witness: a listener returned an error while another request or
\* response listener was still to come, which never fired; an error or done
\* listener ran after the error and Do() returned.
C29_Witness ==
    /\ Returned
    /\ \E k \in PhaseErrors :
         /\ \/ \E a \in 1..Len(d.requestEvents) :
                  Calls("request", d.requestEvents[a]) = 0
            \/ \E b \in 1..Len(d.responseEvents) :
                  Calls("response", d.responseEvents[b]) = 0
         /\ \E j \in Positions : j > k /\ log[j].ev \in {"error", "done"}

\* C30: when Do() ends with a terminal error, every registered error
\* listener is invoked, also the ones that come after an error listener
\* which returned a substitute error.
C30_AllErrorListeners ==
    (Returned /\ \E k \in Positions : Failure(k))
    => \A a \in 1..Len(d.errorListeners) : Calls("error", d.errorListeners[a]) >= 1

\* Calls of error listeners, and the failure that ended the pipeline.
ErrorCalls == {k \in Positions : log[k].ev = "error"}
Failures == {k \in Positions : Failure(k)}

\* The error as the error listeners called before position k left it.
OverwrittenBefore(k) ==
    LET before == {j \in ErrorCalls : j < k /\ log[j].out = "err"}
    IN  IF before = {} THEN FailureErr(Last(Failures))
        ELSE ErrOfEvent(log[Last(before)])

\* C31: when Do() ends with a terminal error, each registered error listener
\* is called with the error as overwritten by the listeners that fired
\* before it (the terminal error if none of them substituted one), and Do()
\* returns the error of the last listener that substituted one.
C31_ErrorChain ==
    (Returned /\ Failures # {})
    => /\ \A a \in 1..Len(d.errorListeners) :
            \E k \in ErrorCalls :
               /\ log[k].scope = d.errorListeners[a].scope
               /\ log[k].n = d.errorListeners[a].n
               /\ log[k].seen = OverwrittenBefore(k)
       /\ result.err = Handed(FailureErr(Last(Failures)))

\* What does hold: every error listener that is called gets the terminal
\* error, and Do() returns the last substitute of an error or done listener.
C31_CalledWithTerminal ==
    /\ \A k \in ErrorCalls : log[k].seen = OverwrittenBefore(k)
    /\ (Returned /\ Failures # {}) => result.err = Handed(FailureErr(Last(Failures)))

\* Calls of done listeners, the timeout's cancel listener among them.
DoneCalls == {k \in Positions : log[k].ev \in {"done", "cancel"}}

\* C32: error listeners are invoked only when a terminal error is present,
\* never on a successful Do(), and every error listener that is invoked has
\* finished before the first done listener fires.
C32_ErrorOnlyOnFailure ==
    /\ \A k \in ErrorCalls : Failures # {} /\ Last(Failures) < k
    /\ (pc \in {"EmitDone", "returned"} /\ Failures = {}) => ErrorCalls = {}
    /\ \A k \in ErrorCalls : \A j \in DoneCalls : k < j

\* C32 witness: Do() returned after a failure, with error listeners and
\* then done listeners called.
C32_Witness ==
    /\ Returned
    /\ Failures # {}
    /\ ErrorCalls # {}
    /\ \E j \in DoneCalls : log[j].ev = "done"

\* Response Before listener calls that stored a body in d.Body.
BodySetters == {k \in Positions : /\ IsListener(k, "response", EventTypeBefore)
                                  /\ log[k].out = "setBody"}

\* C33: when a response Before listener pre-populated the body and the
\* response Before phase raised no error, only the body read is skipped:
\* the response After listeners still fire (the first of them at least,
\* the others unless it returns an error), before the done listeners.
C33_AfterStillFires ==
    (/\ Returned
     /\ BodySetters # {}
     /\ \A k \in Positions : ~(IsListener(k, "response", EventTypeBefore) /\ log[k].out = "err")
     /\ \E a \in 1..Len(d.responseEvents) : d.responseEvents[a].t = EventTypeAfter)
    => /\ \A j \in Positions : log[j].ev # "read"
       /\ \E j \in Positions :
            /\ IsListener(j, "response", EventTypeAfter)
            /\ \A c \in DoneCalls : j < c

\* Calls of cancel() and done listeners that returned an error, OnDone
\* revision.
OnCancelCalls == {k \in 1..Len(logOn) : logOn[k].kind = "cancel"}
OnDoneErrors == {k \in 1..Len(logOn) : logOn[k].kind = "done" /\ logOn[k].out = "err"}
OnTimeoutDerived == \E k \in 1..Len(dOn.doneEvents) : dOn.doneEvents[k] = OnCancel

\* C34: in the OnDone revision, when a timeout is set (and its context was
\* derived) and a done listener registered with OnDone returns an error,
\* cancel() of the timeout context is still invoked exactly once before
\* Do() returns.
C34_CancelDespiteDoneError ==
    (pcOn = "returned" /\ OnTimeoutDerived /\ OnDoneErrors # {})
    => Cardinality(OnCancelCalls) = 1

\* What does hold in the OnDone revision: cancel() is invoked exactly once
\* when no done listener returned an error, and never twice.
C34_CancelUnlessDoneError ==
    (pcOn = "returned" /\ OnTimeoutDerived)
    => Cardinality(OnCancelCalls) = IF OnDoneErrors = {} THEN 1 ELSE 0

\* The entries a slice of the scopes scenario holds, as a set.
EntriesOf(s) == {Contents(heap, s)[j] : j \in 1..s.len}
CallScoped(ln) == ln.scope \in {"call", "cancel"}

\* C35: a listener registered on one Dusk object, and the cancel closure
\* rendering adds for it, is never in the package's lists, in the
\* Instance's lists or in the lists of another Dusk object, and fires only
\* in Do() calls of the object it was registered on.
C35_CallScopedStaysLocal ==
    /\ \A kind \in ListKinds :
         /\ \A ln \in EntriesOf(pkgLists[kind]) : ln.scope = "global"
         /\ \A ln \in EntriesOf(insLists[kind]) : ln.scope = "instance"
         /\ \A o \in 1..MaxObjects :
              \A ln \in EntriesOf(dusks[o].lists[kind]) :
                 CallScoped(ln) => ln.owner = o
    /\ \A j \in 1..Len(fired) :
         CallScoped(fired[j].ln) => fired[j].ln.owner = fired[j].obj

\* C35 witness: two Dusk objects have both made a Do(); a listener
\* registered on the first and the cancel closure of one of them fired.
C35_Witness ==
    /\ \E j \in 1..Len(fired) : fired[j].obj = 2 /\ fired[j].ln.scope # "transport"
    /\ \E j \in 1..Len(fired) : fired[j].ln.scope = "call" /\ fired[j].obj = 1
    /\ \E j \in 1..Len(fired) : fired[j].ln.scope = "cancel"

\* The global and instance listeners in the lists of Dusk o, by kind.
FromOutside(ln) == ln.scope \in {"global", "instance"}
Inherited(o) ==
    [kind \in ListKinds |->
        SelectSeq(Contents(heap, dusks[o].lists[kind]), FromOutside)]

\* C36: the global and instance listeners of a Dusk object are fixed when
\* it is created. No later step (a registration at package or Instance
\* scope, a Clear, anything else) changes them; a Do() of the object calls
\* no other global or instance listener, and calls every one of them (the
\* request listeners when the request rendered), whether or not the
\* package list they came from has been cleared since.
C36_FixedAtCreation ==
    [][\A o \in 1..MaxObjects :
         dusks[o].created =>
            /\ Inherited(o)' = Inherited(o)
            /\ \A j \in (Len(fired) + 1)..Len(fired') :
                 (fired'[j].obj = o /\ FromOutside(fired'[j].ln))
                 => \E a \in 1..Len(Inherited(o)[fired'[j].ln.kind]) :
                       Inherited(o)[fired'[j].ln.kind][a] = fired'[j].ln
            /\ dusks'[o].dos # dusks[o].dos
               => \A kind \in ListKinds :
                    (kind = "done" \/ dusks'[o].Err # "newRequest")
                    => \A a \in 1..Len(Inherited(o)[kind]) :
                          \E j \in (Len(fired) + 1)..Len(fired') :
                             /\ fired'[j].obj = o
                             /\ fired'[j].ln = Inherited(o)[kind][a]]_vars

\* C36 witness: a Do() of a Dusk called a global request listener that has
\* been cleared from the package list since the Dusk was created, while a
\* listener registered at package or Instance scope after its creation was
\* not called.
C36_Witness ==
    \E o \in 1..MaxObjects :
       /\ dusks[o].dos > 0
       /\ \E j \in 1..Len(fired) :
            /\ fired[j].obj = o
            /\ fired[j].ln.scope = "global"
            /\ fired[j].ln \notin EntriesOf(pkgLists[fired[j].ln.kind])
       /\ \E kind \in ListKinds :
            \E ln \in EntriesOf(pkgLists[kind]) \cup EntriesOf(insLists[kind]) :
               /\ ln \notin EntriesOf(dusks[o].lists[kind])
               /\ \A j \in 1..Len(fired) : fired[j].ln # ln

\* The cancel closures among the done listeners of Dusk o, and the calls
\* the step from this state to the next adds to the log.
CancelsOf(dusk) ==
    SelectSeq(Contents(heap, dusk.lists["done"]), LAMBDA ln : ln.scope = "cancel")
NewCalls == {j \in 1..Len(fired') : j > Len(fired)}

\* What a Do() of Dusk o with a timeout does according to C39: a cancel
\* closure more, a context derived from the stored one, and when a context
\* was stored (by an earlier Do(), which cancelled it) a transport call
\* under a cancelled context and one more call of every earlier cancel
\* closure.
DoAddsCancel(o) ==
    /\ Len(CancelsOf(dusks[o])') = Len(CancelsOf(dusks[o])) + 1
    /\ Len(dusks'[o].ctx) = Len(dusks[o].ctx) + 1
    /\ dusks[o].ctx # <<>>
       => /\ CtxDone(dusks[o].ctx)
          /\ \E j \in NewCalls :
               /\ fired'[j].ln.scope = "transport"
               /\ fired'[j].ln.kind = "canceled"
          /\ \A a \in 1..Len(CancelsOf(dusks[o])) :
               \E j \in NewCalls : fired'[j].ln = CancelsOf(dusks[o])[a]

\* C39: each Do() on a Dusk with a non-zero timeout appends one more cancel
\* listener and derives its timeout context from the context the previous
\* Do() stored, which has been cancelled; so a second Do() on the same
\* object runs under an already-cancelled context and invokes the first
\* call's cancel function again.
C39_EveryDoAddsCancel ==
    [][\A o \in 1..MaxObjects :
         (dusks'[o].dos # dusks[o].dos /\ dusks[o].timeout # 0)
         => DoAddsCancel(o)]_vars

\* C39 (amended): the same for each Do() whose request rendered; a Do()
\* whose newRequest failed adds no cancel listener and derives no context.
C39_RenderedDoAddsCancel ==
    [][\A o \in 1..MaxObjects :
         (dusks'[o].dos # dusks[o].dos /\ dusks[o].timeout # 0)
         => IF dusks'[o].Err # "newRequest"
            THEN DoAddsCancel(o)
            ELSE /\ CancelsOf(dusks[o])' = CancelsOf(dusks[o])
                 /\ dusks'[o].ctx = dusks[o].ctx]_vars

\* C39 witness: the second Do() of a Dusk with a timeout ran under a
\* cancelled context and called the first Do()'s cancel closure again.
C39_Witness ==
    \E o \in 1..MaxObjects :
       /\ dusks[o].dos = 2
       /\ Len(dusks[o].ctx) = 2
       /\ \E j \in 1..Len(fired) :
            fired[j] = [obj |-> o, do |-> 2, ln |-> Listener("transport", o, "canceled", 2)]
       /\ \E j \in 1..Len(fired) :
            fired[j] = [obj |-> o, do |-> 2, ln |-> CancelListener(o, 1)]

\* Request and response listener calls that wrote an error into d.Err, and
\* what d.Err holds after them.
ErrWrites == {k \in Positions : /\ log[k].ev \in {"request", "response"}
                                /\ log[k].out = "setErr"}
ErrWritten ==
    IF ErrWrites = {} THEN NoErr
    ELSE LET x == log[Last(ErrWrites)]
         IN  [src |-> "written", t |-> x.t, scope |-> x.scope, n |-> x.n]

C38_ResponseAfterRequestPhase ==
    /\ pc \in {"none", "built", "EmitRequestBefore", "EmitRequestAfter"}
       => d.Response = "nil"
    /\ (\E k \in Positions : IsListener(k, "request", EventTypeAfter) /\ log[k].out = "err")
       => /\ d.Response = "nil"
          /\ Returned => result.resp = "nil"
    /\ d.Response # "nil"
       => /\ \E k \in Positions : log[k].ev = "send" /\ log[k].out = "ok"
          /\ \A k \in Positions :
               IsListener(k, "request", EventTypeAfter)
               => \A j \in Positions : log[j].ev = "response" => k < j

\* C38 witness: the transport answered, a request After listener returned
\* an error and Do() returned.
C38_Witness ==
    /\ Returned
    /\ \E k \in Positions : log[k].ev = "send" /\ log[k].out = "ok"
    /\ \E k \in Positions : IsListener(k, "request", EventTypeAfter) /\ log[k].out = "err"
    /\ result.resp = "nil"

====
